---- MODULE Spec2Model ----
(***************************************************************************)
(* A model of the 152compiler front end: the indentation-sensitive lexer   *)
(* (packages/lexer/lexer.go) and the recursive-descent parser              *)
(* (packages/parser/parser.go).  Source text is a sequence of one-byte     *)
(* strings; the byte 0 that readChar yields at end of input is NUL.        *)
(***************************************************************************)
EXTENDS Integers, Sequences, FiniteSets, TLC

VARIABLES
    src,       \* the source text as drawn: its lines and whether the last ends in a newline
    lx,        \* the Lexer driven directly by repeated NextToken calls
    tok,       \* the token the last NextToken call returned
    nIndent,   \* INDENT tokens returned so far
    nDedent,   \* DEDENT tokens returned so far
    nEof,      \* EOF tokens returned so far (counted up to MaxEofCalls)
    parser,    \* the Parser (with its own Lexer)
    stack,     \* open parseBlockStatement activations, innermost last
    program,   \* Program.Statements of the running ParseProgram
    pc,        \* position of ParseProgram: "idle", "loop", "done" or "panic"
    steps,     \* iterations of the statement loops run so far
    tables,    \* the SymbolTable objects of a run and the result of the last call
    gen        \* the CodeGenerator and the result of its last Generate

vars ==
    <<src, lx, tok, nIndent, nDedent, nEof, parser, stack, program, pc, steps,
      tables, gen>>
lexVars == <<lx, tok, nIndent, nDedent, nEof>>
parseVars == <<parser, stack, program, pc, steps>>
backVars == <<tables, gen>>

(***************************************************************************)
(* Bytes                                                                   *)
(***************************************************************************)
NUL == "NUL"

Letters ==
    {"a","b","c","d","e","f","g","h","i","j","k","l","m","n","o","p","q",
     "r","s","t","u","v","w","x","y","z",
     "A","B","C","D","E","F","G","H","I","J","K","L","M","N","O","P","Q",
     "R","S","T","U","V","W","X","Y","Z","_"}

Digits == {"0","1","2","3","4","5","6","7","8","9"}

isLetter(ch) == ch \in Letters

isDigit(ch) == ch \in Digits

\* input[from:to] of a Go string, as text
RECURSIVE Slice(_, _, _)
Slice(s, from, to) ==
    IF from >= to \/ from >= Len(s) THEN ""
    ELSE s[from + 1] \o Slice(s, from + 1, to)

\* a value computed once and used under a local name (a Go local variable)
With(v, Body(_)) == Body(v)

(***************************************************************************)
(* Tokens                                                                  *)
(***************************************************************************)
Token(type, literal, line, column) ==
    [Type |-> type, Literal |-> literal, Line |-> line, Column |-> column]

newToken(tokenType, ch, line, column) == Token(tokenType, ch, line, column)

LookupIdent(ident) ==
    CASE ident = "def" -> "DEF"
      [] ident = "return" -> "RETURN"
      [] ident = "if" -> "IF"
      [] ident = "else" -> "ELSE"
      [] ident = "while" -> "WHILE"
      [] ident = "print" -> "PRINT"
      [] OTHER -> "IDENT"

NoToken == Token("NONE", "", 0, 0)

SpacesMsg == "spaces for indentation not allowed, use tabs"

CrMsg == "Windows line endings (\\r\\n) not allowed, use Unix style (\\n)"

(***************************************************************************)
(* Lexer                                                                   *)
(***************************************************************************)
readChar(l) ==
    LET c == IF l.readPosition >= Len(l.input) THEN NUL
             ELSE l.input[l.readPosition + 1]
    IN [l EXCEPT !.ch = c,
                 !.position = l.readPosition,
                 !.readPosition = l.readPosition + 1,
                 !.column = IF c = "\n" THEN 0 ELSE l.column + 1,
                 !.startOfLine = IF c = "\n" THEN TRUE ELSE l.startOfLine,
                 !.lineLength = IF c # "\n" /\ ~l.startOfLine
                                THEN l.lineLength + 1 ELSE l.lineLength]

New(input) ==
    readChar([input |-> input, position |-> 0, readPosition |-> 0, ch |-> NUL,
              line |-> 1, column |-> 0, indentStack |-> <<0>>,
              currentIndent |-> 0, startOfLine |-> TRUE,
              expectIndent |-> FALSE, lineLength |-> 0])

\* the loop `for isLetter(l.ch) || isDigit(l.ch) { l.readChar() }`
RECURSIVE readIdentifierRest(_)
readIdentifierRest(l) ==
    IF isLetter(l.ch) \/ isDigit(l.ch) THEN readIdentifierRest(readChar(l)) ELSE l

\* readNumber: the lexer after the digit run (the literal is the slice)
RECURSIVE readNumber(_)
readNumber(l) == IF isDigit(l.ch) THEN readNumber(readChar(l)) ELSE l

\* the loop of readString: read until the closing quote or end of input
RECURSIVE readStringBody(_)
readStringBody(l) ==
    LET l1 == readChar(l)
    IN IF l1.ch = "\"" \/ l1.ch = NUL THEN l1 ELSE readStringBody(l1)

readString(l) ==
    LET startCol == l.column
        position == l.position + 1
        l1 == readStringBody(l)
    IN [tok |-> Token("STRING", Slice(l1.input, position, l1.position),
                      l1.line, startCol),
        l |-> readChar(l1)]

RECURSIVE skipBlanks(_)
skipBlanks(l) == IF l.ch = " " \/ l.ch = "\t" THEN skipBlanks(readChar(l)) ELSE l

skipWhitespace(l) == IF ~l.startOfLine THEN skipBlanks(l) ELSE l

SingleCharType(ch) ==
    CASE ch = "=" -> "ASSIGN"
      [] ch = "+" -> "PLUS"
      [] ch = "*" -> "ASTERISK"
      [] ch = "<" -> "LT"
      [] ch = ">" -> "GT"
      [] ch = "(" -> "LPAREN"
      [] ch = ")" -> "RPAREN"
      [] ch = ":" -> "COLON"
      [] ch = "," -> "COMMA"
      [] OTHER -> "ILLEGAL"

processToken(l) ==
    LET startColumn == l.column
    IN IF isLetter(l.ch) THEN
           LET l1 == readIdentifierRest(readChar(l))
               literal == Slice(l.input, l.position, l1.position)
           IN [tok |-> Token(LookupIdent(literal), literal, l1.line, startColumn),
               l |-> l1]
       ELSE IF isDigit(l.ch) THEN
           LET l1 == readNumber(l)
           IN [tok |-> Token("INT", Slice(l.input, l.position, l1.position),
                             l1.line, startColumn),
               l |-> l1]
       ELSE IF l.ch = "\"" THEN readString(l)
       ELSE [tok |-> newToken(SingleCharType(l.ch), l.ch, l.line, startColumn),
             l |-> readChar(l)]

\* the loop `for l.ch == '\t' { indentLevel++; l.readChar() }`
RECURSIVE countTabs(_)
countTabs(l) == IF l.ch = "\t" THEN countTabs(readChar(l)) ELSE l

\* lexer.go 191-199: end of input, nothing is consumed
EofToken(l) == [tok |-> Token("EOF", "", l.line, l.column), l |-> l]

\* NextToken from the carriage-return check on (lexer.go 178-231)
NextTokenContent(l) ==
    IF l.ch = "\r" THEN [tok |-> Token("ILLEGAL", CrMsg, l.line, l.column), l |-> l]
    ELSE With(skipWhitespace(l), LAMBDA l1 :
            IF l1.ch = NUL THEN EofToken(l1)
            ELSE IF l1.ch = "\n" THEN
                [tok |-> Token("NEWLINE", "\n", l1.line, l1.lineLength + 1),
                 l |-> [readChar(l1) EXCEPT !.line = l1.line + 1,
                                            !.startOfLine = TRUE,
                                            !.lineLength = 0]]
            ELSE With(processToken(l1), LAMBDA r :
                    IF r.tok.Type = "COLON"
                    THEN [r EXCEPT !.l.expectIndent = TRUE] ELSE r))

\* a DEDENT test that also holds back at end of input, as it does at a newline
NeedDedentSkipAtEnd(indentLevel, l) ==
    indentLevel < Len(l.indentStack) - 1 /\ l.ch # "\n" /\ l.ch # NUL

\* the DEDENT test of lexer.go 156
NeedDedent(indentLevel, l) ==
    indentLevel < Len(l.indentStack) - 1 /\ l.ch # "\n"

\* the INDENT test of lexer.go 167
NeedIndent(indentLevel, l) == indentLevel > Len(l.indentStack) - 1

\* the start-of-line part of NextToken once the tabs are counted: l is the
\* lexer after the tab loop
NextTokenAtLineStart(indentLevel, l) ==
    IF NeedDedent(indentLevel, l) THEN
        [tok |-> Token("DEDENT", "", l.line, 1),
         l |-> [l EXCEPT !.indentStack =
                   SubSeq(l.indentStack, 1, Len(l.indentStack) - 1)]]
    ELSE IF NeedIndent(indentLevel, l) THEN
        [tok |-> Token("INDENT", "\t", l.line, 1),
         l |-> [l EXCEPT !.indentStack = Append(l.indentStack, indentLevel)]]
    ELSE NextTokenContent(l)

NextToken(l) ==
    IF l.startOfLine THEN
        IF l.ch = " " THEN
            [tok |-> Token("ILLEGAL", SpacesMsg, l.line, 1),
             l |-> [l EXCEPT !.column = 1]]
        ELSE With(countTabs([l EXCEPT !.column = 1]), LAMBDA l1 :
                NextTokenAtLineStart(
                    l1.position - l.position,
                    IF l1.ch = "\n" \/ l1.ch = NUL
                    THEN [l1 EXCEPT !.startOfLine = TRUE]
                    ELSE [l1 EXCEPT !.startOfLine = FALSE,
                                    !.column = l1.position - l.position + 1,
                                    !.lineLength = l1.position - l.position + 1]))
    ELSE NextTokenContent(l)

(***************************************************************************)
(* AST nodes.  Nil is Go's nil interface value.  NilFunctionCall is the    *)
(* nil *ast.FunctionCall that parseExpression returns wrapped in an        *)
(* ast.Expression, and NilStatement the nil statement pointer that         *)
(* parseStatement wraps in an ast.Statement: both compare unequal to nil.  *)
(***************************************************************************)
Nil == [kind |-> "nil"]

NilFunctionCall == [kind |-> "nilFunctionCall"]

NilStatement == [kind |-> "nilStatement"]

Identifier(t) == [kind |-> "Identifier", Value |-> t.Literal]

IntegerLiteral(t) == [kind |-> "IntegerLiteral", Value |-> t.Literal]

StringLiteral(t) == [kind |-> "StringLiteral", Value |-> t.Literal]

BinaryExpression(left, operator, right) ==
    [kind |-> "BinaryExpression", Left |-> left, Operator |-> operator, Right |-> right]

FunctionCall(name, arguments) ==
    [kind |-> "FunctionCall", Function |-> name, Arguments |-> arguments]

\* String() of an expression dereferences a nil *ast.FunctionCall inside it
RECURSIVE StringPanics(_)
StringPanics(e) ==
    CASE e.kind = "nilFunctionCall" -> TRUE
      [] e.kind = "BinaryExpression" -> StringPanics(e.Left) \/ StringPanics(e.Right)
      [] e.kind = "FunctionCall" ->
            \E i \in 1..Len(e.Arguments) : StringPanics(e.Arguments[i])
      [] OTHER -> FALSE

(***************************************************************************)
(* Parser.  Besides the fields of the Go struct the record carries         *)
(* `panicked` (a nil dereference has stopped the goroutine: nothing after  *)
(* it runs) and `consumed` (the number of nextToken calls made).           *)
(***************************************************************************)
ZeroToken == Token("", "", 0, 0)

nextToken(p) ==
    IF p.panicked THEN p
    ELSE With(NextToken(p.l), LAMBDA r :
            [p EXCEPT !.prevToken = p.currentToken,
                      !.currentToken = p.peekToken,
                      !.peekToken = r.tok,
                      !.l = r.l,
                      !.consumed = p.consumed + 1])

NewParser(l) ==
    With(NextToken(l), LAMBDA r :
        [nextToken([l |-> r.l, currentToken |-> ZeroToken, peekToken |-> r.tok,
                    prevToken |-> ZeroToken, errors |-> <<>>, detected |-> <<>>,
                    panicked |-> FALSE, consumed |-> 0])
           EXCEPT !.consumed = 0])

\* detected records, for each error, the message and the lines of the current
\* and the peek token at the time of the call
addError(p, msg) ==
    IF p.panicked THEN p
    ELSE [p EXCEPT !.errors = Append(p.errors, "line 1: " \o msg),
                   !.detected = Append(p.detected,
                                       [msg |-> msg,
                                        currentLine |-> p.currentToken.Line,
                                        peekLine |-> p.peekToken.Line])]

panic(p) == [p EXCEPT !.panicked = TRUE]

\* a debug Printf that calls e.String()
printString(p, e) == IF StringPanics(e) THEN panic(p) ELSE p

\* expectPeek as the pair (advanced parser, whether the peek token matched)
expectPeek(p, t) ==
    IF p.peekToken.Type = t THEN [p |-> nextToken(p), ok |-> TRUE]
    ELSE [p |-> p, ok |-> FALSE]

Result(p, node) == [p |-> p, node |-> node]

BinaryOperators == {"PLUS", "ASTERISK", "GT", "LT"}

LeafOf(t) ==
    CASE t.Type = "IDENT" -> Identifier(t)
      [] t.Type = "INT" -> IntegerLiteral(t)
      [] OTHER -> StringLiteral(t)

RECURSIVE parseExpression(_), parseFunctionCall(_), parseArguments(_, _, _),
          parseGroupedExpression(_)

\* the binary-expression arm of parseExpression (parser.go 277-296)
parseBinaryExpression(p, leftExp) ==
    With(parseExpression(nextToken(nextToken(p))), LAMBDA r :
        IF r.node = Nil THEN Result(r.p, Nil)
        ELSE Result(printString(r.p, BinaryExpression(leftExp, p.peekToken.Literal,
                                                      r.node)),
                    BinaryExpression(leftExp, p.peekToken.Literal, r.node)))

parseExpression(p) ==
    IF p.panicked THEN Result(p, Nil)
    ELSE IF p.currentToken.Type = "LPAREN" THEN parseGroupedExpression(p)
    ELSE IF p.currentToken.Type = "IDENT" /\ p.peekToken.Type = "LPAREN"
    THEN parseFunctionCall(p)
    ELSE IF p.currentToken.Type = "EOF"
    THEN Result(addError(p, "'(' was never closed"), Nil)
    ELSE IF p.currentToken.Type \notin {"IDENT", "INT", "STRING"} THEN Result(p, Nil)
    ELSE IF p.peekToken.Type \in BinaryOperators
    THEN parseBinaryExpression(p, LeafOf(p.currentToken))
    ELSE IF p.peekToken.Type \in {"EOF", "NEWLINE"}
    THEN Result(nextToken(p), LeafOf(p.currentToken))
    ELSE Result(p, LeafOf(p.currentToken))

\* parseFunctionCall after one argument: p is the parser after the
\* nextToken that follows the argument
parseAfterArgument(p, funcName, args) ==
    IF p.currentToken.Type = "COMMA"
    THEN parseArguments(nextToken(p), funcName, args)
    ELSE IF p.currentToken.Type # "RPAREN"
    THEN Result(addError(p, "Expected ',' or ')' after argument"), NilFunctionCall)
    ELSE parseArguments(p, funcName, args)

\* the argument loop of parseFunctionCall, then the closing parenthesis
parseArguments(p, funcName, args) ==
    IF p.panicked THEN Result(p, NilFunctionCall)
    ELSE IF p.currentToken.Type = "RPAREN"
    THEN Result(nextToken(p), FunctionCall(funcName, args))
    ELSE With(parseExpression(p), LAMBDA r :
            IF r.node = Nil THEN Result(r.p, NilFunctionCall)
            ELSE parseAfterArgument(nextToken(r.p), funcName, Append(args, r.node)))

parseFunctionCall(p) ==
    parseArguments(nextToken(nextToken(p)), p.currentToken.Literal, <<>>)

\* expectPeek(RPAREN) at the end of parseGroupedExpression
closeGroup(e, node) ==
    IF ~e.ok THEN Result(addError(e.p, "'(' was never closed"), Nil)
    ELSE Result(nextToken(e.p), node)

parseGroupedExpression(p) ==
    With(parseExpression(nextToken(p)), LAMBDA r :
        IF r.node = Nil THEN Result(r.p, Nil)
        ELSE closeGroup(expectPeek(r.p, "RPAREN"), r.node))

(***************************************************************************)
(* Statements without a block                                              *)
(***************************************************************************)
AssignmentStatement(name, value) ==
    [kind |-> "AssignmentStatement", Name |-> name, Value |-> value]

ExpressionStatement(e) == [kind |-> "ExpressionStatement", Expression |-> e]

ReturnStatement(value) == [kind |-> "ReturnStatement", Value |-> value]

PrintStatement(value) == [kind |-> "PrintStatement", Value |-> value]

parseAssignmentStatement(p) ==
    With(nextToken(p), LAMBDA p1 :
        IF p1.currentToken.Type # "ASSIGN"
        THEN Result(addError(p1, "Expected '=' after identifier"), NilStatement)
        ELSE With(parseExpression(nextToken(p1)), LAMBDA r :
                IF r.node = Nil THEN Result(r.p, NilStatement)
                ELSE Result(printString(r.p, r.node),
                            AssignmentStatement(p.currentToken.Literal, r.node))))

\* `if p.peekToken.Type == token.EOF || ... NEWLINE { p.nextToken() }`
skipLineEnd(p) ==
    IF p.peekToken.Type \in {"EOF", "NEWLINE"} THEN nextToken(p) ELSE p

parseExpressionStatement(p) ==
    With(parseExpression(p), LAMBDA r :
        IF r.node = Nil THEN Result(r.p, NilStatement)
        ELSE Result(printString(skipLineEnd(r.p), r.node),
                    ExpressionStatement(r.node)))

parseReturnStatement(p) ==
    With(parseExpression(nextToken(p)), LAMBDA r :
        IF r.node = Nil THEN Result(r.p, NilStatement)
        ELSE Result(printString(skipLineEnd(r.p), r.node), ReturnStatement(r.node)))

parsePrintStatement(p) ==
    IF p.peekToken.Type # "LPAREN"
    THEN Result(addError(p, "Expected '(' after print"), NilStatement)
    ELSE With(parseExpression(nextToken(nextToken(p))), LAMBDA r :
            IF r.node = Nil THEN Result(r.p, NilStatement)
            ELSE IF r.p.peekToken.Type # "RPAREN"
            THEN Result(addError(r.p, "Expected ')' after expression"), NilStatement)
            ELSE Result(printString(nextToken(nextToken(r.p)), r.node),
                        PrintStatement(r.node)))

(***************************************************************************)
(* Statements with a block.  A block body is parsed by the loop of         *)
(* parseBlockStatement, one iteration per step; `stack` holds one frame    *)
(* per parseBlockStatement call that has not returned yet.                 *)
(***************************************************************************)
IfStatement(condition, consequence, alternative) ==
    [kind |-> "IfStatement", Condition |-> condition,
     Consequence |-> consequence, Alternative |-> alternative]

WhileStatement(condition, body) ==
    [kind |-> "WhileStatement", Condition |-> condition, Body |-> body]

FunctionDefinition(name, parameters, body) ==
    [kind |-> "FunctionDefinition", Name |-> name, Parameters |-> parameters,
     Body |-> body]

\* what parseStatement has done when it returns or enters a block body:
\* `node` is the statement returned, or `frame` the block it has entered
NoFrame == [kind |-> "none"]

Returned(p, node) == [p |-> p, node |-> node, frame |-> NoFrame]

Entered(p, kind, node) ==
    [p |-> p, node |-> Nil,
     frame |-> [kind |-> kind, node |-> node, statements |-> <<>>]]

\* parseBlockStatement up to its loop: the current token must be INDENT
enterBlock(p, kind, node) ==
    IF p.currentToken.Type # "INDENT" THEN Returned(p, NilStatement)
    ELSE Entered(nextToken(p), kind, node)

\* the header of a block statement after its condition or parameter list:
\* expectPeek(NEWLINE), expectPeek(INDENT), then parseBlockStatement
expectBlock(p, kind, node) ==
    With(expectPeek(p, "NEWLINE"), LAMBDA n :
        IF ~n.ok THEN Returned(n.p, NilStatement)
        ELSE With(expectPeek(n.p, "INDENT"), LAMBDA i :
                IF ~i.ok THEN Returned(i.p, NilStatement)
                ELSE enterBlock(i.p, kind, node)))

\* parseIfStatement up to the consequence block
parseIfStatement(p) ==
    With(parseExpression(nextToken(p)), LAMBDA r :
        IF r.node = Nil THEN Returned(r.p, NilStatement)
        ELSE With(expectPeek(printString(r.p, r.node), "COLON"), LAMBDA c :
                IF ~c.ok
                THEN Returned(addError(c.p, "Expected ':' after if condition"),
                              NilStatement)
                ELSE expectBlock(c.p, "if", IfStatement(r.node, <<>>, <<>>))))

\* parseWhileStatement up to the body block
parseWhileStatement(p) ==
    With(parseExpression(nextToken(p)), LAMBDA r :
        IF r.node = Nil THEN Returned(r.p, NilStatement)
        ELSE With(expectPeek(r.p, "COLON"), LAMBDA c :
                IF ~c.ok
                THEN Returned(addError(c.p, "Expected ':' after while condition"),
                              NilStatement)
                ELSE expectBlock(c.p, "while", WhileStatement(r.node, <<>>))))

\* the parameter loop of parseFunctionDefinition
RECURSIVE parseParameters(_, _)
parseParameters(p, params) ==
    IF p.currentToken.Type = "RPAREN" THEN [p |-> p, ok |-> TRUE, params |-> params]
    ELSE IF p.currentToken.Type # "IDENT"
    THEN [p |-> addError(p, "Expected parameter name"), ok |-> FALSE,
          params |-> params]
    ELSE With(nextToken(p), LAMBDA p1 :
            parseParameters(IF p1.currentToken.Type = "COMMA"
                            THEN nextToken(p1) ELSE p1,
                            Append(params, p.currentToken.Literal)))

\* parseFunctionDefinition after the parameter list
parseFunctionHeaderEnd(p, name, params) ==
    IF p.peekToken.Type # "COLON"
    THEN Returned(addError(p, "Expected ':' after parameters"), NilStatement)
    ELSE With(nextToken(p), LAMBDA p2 :
            IF p2.peekToken.Type # "NEWLINE"
            THEN Returned(addError(p2, "Expected newline after ':'"), NilStatement)
            ELSE enterBlock(nextToken(nextToken(p2)), "def",
                            FunctionDefinition(name, params, <<>>)))

\* parseFunctionDefinition up to the body block
parseFunctionDefinition(p) ==
    IF p.peekToken.Type # "IDENT"
    THEN Returned(addError(p, "Expected function name after 'def'"), NilStatement)
    ELSE With(nextToken(p), LAMBDA p1 :
            IF p1.peekToken.Type # "LPAREN"
            THEN Returned(addError(p1, "Expected '(' after function name"),
                          NilStatement)
            ELSE With(parseParameters(nextToken(nextToken(p1)), <<>>), LAMBDA ps :
                    IF ~ps.ok THEN Returned(ps.p, NilStatement)
                    ELSE parseFunctionHeaderEnd(ps.p, p1.currentToken.Literal,
                                                ps.params)))

parseStatement(p) ==
    LET t == p.currentToken.Type
        simple(r) == Returned(r.p, r.node)
    IN CASE t = "PRINT" -> simple(parsePrintStatement(p))
         [] t = "IF" -> parseIfStatement(p)
         [] t = "WHILE" -> parseWhileStatement(p)
         [] t = "DEF" -> parseFunctionDefinition(p)
         [] t = "RETURN" -> simple(parseReturnStatement(p))
         [] t = "IDENT" -> IF p.peekToken.Type = "ASSIGN"
                           THEN simple(parseAssignmentStatement(p))
                           ELSE simple(parseExpressionStatement(p))
         [] OTHER -> Returned(p, Nil)

\* the text of a token type (the constants of package token)
TokenTypeText(type) ==
    CASE type = "ASSIGN" -> "="
      [] type = "PLUS" -> "+"
      [] type = "ASTERISK" -> "*"
      [] type = "LT" -> "<"
      [] type = "GT" -> ">"
      [] type = "LPAREN" -> "("
      [] type = "RPAREN" -> ")"
      [] type = "COLON" -> ":"
      [] type = "COMMA" -> ","
      [] OTHER -> type

\* a parser state together with the open blocks and the program so far
Config(p, stk, prog, at) == [p |-> p, stack |-> stk, program |-> prog, pc |-> at]

\* what ParseProgram does with the statement parseStatement returned
\* (parser.go 56-73)
programTakes(p, prog, stmt) ==
    IF Len(p.errors) > 0 THEN Config(p, <<>>, <<>>, "done")
    ELSE IF stmt # Nil THEN Config(p, <<>>, Append(prog, stmt), "loop")
    ELSE Config(addError(p, "Unexpected token " \o TokenTypeText(p.currentToken.Type)
                            \o " (" \o p.currentToken.Literal \o ")"),
                <<>>, <<>>, "done")

\* what the loop of parseBlockStatement does with it (parser.go 532-536)
blockTakes(p, stk, prog, stmt) ==
    LET n == Len(stk)
    IN Config(p,
              IF stmt # Nil
              THEN [stk EXCEPT ![n].statements = Append(stk[n].statements, stmt)]
              ELSE stk,
              prog, "loop")

\* a statement returns to the loop that asked for it
deliver(p, stk, prog, stmt) ==
    IF p.panicked THEN Config(p, stk, prog, "panic")
    ELSE IF stk = <<>> THEN programTakes(p, prog, stmt)
    ELSE blockTakes(p, stk, prog, stmt)

\* one call of parseStatement from the loop over the open blocks stk
statementStep(p, stk, prog) ==
    With(parseStatement(p), LAMBDA b :
        IF b.p.panicked THEN Config(b.p, stk, prog, "panic")
        ELSE IF b.frame # NoFrame THEN Config(b.p, Append(stk, b.frame), prog, "loop")
        ELSE deliver(b.p, stk, prog, b.node))

\* the else branch of parseIfStatement up to the alternative block
\* (parser.go 443-463): c is the outcome of expectPeek(COLON)
enterElse(c, outer, prog, node) ==
    IF ~c.ok THEN deliver(c.p, outer, prog, NilStatement)
    ELSE With(expectPeek(c.p, "NEWLINE"), LAMBDA nl :
            IF ~nl.ok THEN deliver(nl.p, outer, prog, NilStatement)
            ELSE With(expectPeek(nl.p, "INDENT"), LAMBDA i :
                    IF ~i.ok THEN deliver(i.p, outer, prog, NilStatement)
                    ELSE Config(nextToken(i.p),
                                Append(outer, [kind |-> "else", node |-> node,
                                               statements |-> <<>>]),
                                prog, "loop")))

\* the statement that owns the block `frame` takes the statements of the
\* block (parser.go 436-466, 495-501, 225-232); p is the parser after
\* parseBlockStatement has returned
blockOwnerTakes(p, frame, outer, prog) ==
    IF frame.statements = <<>> THEN deliver(p, outer, prog, NilStatement)
    ELSE IF frame.kind = "if" THEN
        IF p.currentToken.Type = "ELSE"
        THEN enterElse(expectPeek(p, "COLON"), outer, prog,
                       [frame.node EXCEPT !.Consequence = frame.statements])
        ELSE deliver(p, outer, prog,
                     [frame.node EXCEPT !.Consequence = frame.statements])
    ELSE IF frame.kind = "else"
    THEN deliver(p, outer, prog, [frame.node EXCEPT !.Alternative = frame.statements])
    ELSE deliver(p, outer, prog, [frame.node EXCEPT !.Body = frame.statements])

\* parseBlockStatement after its loop (parser.go 539-548), then its caller
blockReturns(p, stk, prog) ==
    blockOwnerTakes(IF p.currentToken.Type = "DEDENT" THEN nextToken(p) ELSE p,
                    stk[Len(stk)], SubSeq(stk, 1, Len(stk) - 1), prog)

(***************************************************************************)
(* Source texts: lines of leading tabs and a body, each ended by a         *)
(* newline; the newline of the last line may be missing.                   *)
(***************************************************************************)
MaxTabs == 2
MaxLines == 3
MaxEofCalls == 2

Tabs(n) == [i \in 1..n |-> "\t"]

RECURSIVE Text(_, _)
Text(ls, trailing) ==
    IF Len(ls) = 0 THEN <<>>
    ELSE Tabs(ls[1].tabs) \o ls[1].body
         \o (IF Len(ls) > 1 \/ trailing THEN <<"\n">> ELSE <<>>)
         \o Text(Tail(ls), trailing)

LexBodies ==
    { <<>>,
      <<"x">>,
      <<"i","f"," ","x",":">>,
      <<" ","x">>,
      <<"x","\r">>,
      <<"x","=","\"","a","\r","\"">>,
      <<"\"","a">>,
      <<"#","c">>,
      <<"x"," ","#">>,
      <<"@">> }

LexLines == {[tabs |-> t, body |-> b] : t \in 0..MaxTabs, b \in LexBodies}

LexSources ==
    {[lines |-> ls, trailing |-> nl] :
        ls \in UNION {[1..n -> LexLines] : n \in 0..MaxLines}, nl \in BOOLEAN}

SourceText(s) == Text(s.lines, s.trailing)

NoParser == [idle |-> TRUE]

NoLexer == [idle |-> TRUE]

NoTables == [idle |-> TRUE]

NoGenerator == [idle |-> TRUE]

(***************************************************************************)
(* The lexer driven by a caller that keeps asking for the next token       *)
(***************************************************************************)
LexInitOver(sources) ==
    /\ src \in sources
    /\ lx = New(SourceText(src))
    /\ tok = NoToken
    /\ nIndent = 0
    /\ nDedent = 0
    /\ nEof = 0
    /\ parser = NoParser
    /\ stack = <<>>
    /\ program = <<>>
    /\ pc = "idle"
    /\ steps = 0
    /\ tables = NoTables
    /\ gen = NoGenerator

LexInit == LexInitOver(LexSources)

CallNextToken ==
    /\ nEof < MaxEofCalls
    /\ LET r == NextToken(lx)
       IN /\ lx' = r.l
          /\ tok' = r.tok
          /\ nIndent' = IF nEof = 0 /\ r.tok.Type = "INDENT" THEN nIndent + 1 ELSE nIndent
          /\ nDedent' = IF nEof = 0 /\ r.tok.Type = "DEDENT" THEN nDedent + 1 ELSE nDedent
          /\ nEof' = IF r.tok.Type = "EOF" THEN nEof + 1 ELSE nEof
    /\ UNCHANGED <<backVars, src, parseVars>>

LexNext == CallNextToken

LexSpec == LexInit /\ [][LexNext]_vars

eofSeen == nEof > 0

(***************************************************************************)
(* The same caller on longer sources whose lines differ in indentation     *)
(* only: a line is blank or holds one identifier.                          *)
(***************************************************************************)
MaxIndentLines == 4

IndentBodies == { <<>>, <<"x">> }

IndentLines == {[tabs |-> t, body |-> b] : t \in 0..MaxTabs, b \in IndentBodies}

IndentSources ==
    {[lines |-> ls, trailing |-> nl] :
        ls \in UNION {[1..n -> IndentLines] : n \in 0..MaxIndentLines},
        nl \in BOOLEAN}

IndentInit == LexInitOver(IndentSources)

IndentSpec == IndentInit /\ [][LexNext]_vars

(***************************************************************************)
(* What a NextToken call starts from and what it consumes                  *)
(***************************************************************************)
\* the byte at 0-based offset i of the input, NUL past its end
ByteAt(l, i) == IF i < Len(l.input) THEN l.input[i + 1] ELSE NUL

\* the call starts on the first byte of a line of the source text
AtLineStart(l) == l.position = 0 \/ ByteAt(l, l.position - 1) = "\n"

\* number of tabs from offset i on
RECURSIVE TabRun(_, _)
TabRun(l, i) == IF ByteAt(l, i) = "\t" THEN 1 + TabRun(l, i + 1) ELSE 0

\* first offset from i on that holds neither a space nor a tab
RECURSIVE PastBlanks(_, _)
PastBlanks(l, i) ==
    IF ByteAt(l, i) \in {" ", "\t"} THEN PastBlanks(l, i + 1) ELSE i

Top(s) == s[Len(s)]

EndsWithNewline(l) == Len(l.input) > 0 /\ l.input[Len(l.input)] = "\n"

\* the source is tab-indented and its indentation is well formed: no line
\* starts its text with a space, a blank line is empty, the first non-blank
\* line has no tab, and a non-blank line has at most one tab more than the
\* non-blank line before it
NonBlank(s) == SelectSeq(s.lines, LAMBDA ln : ln.body # <<>>)

WellIndented(s) ==
    /\ \A i \in 1..Len(s.lines) :
           IF s.lines[i].body = <<>> THEN s.lines[i].tabs = 0
           ELSE s.lines[i].body[1] # " "
    /\ Len(NonBlank(s)) > 0 => NonBlank(s)[1].tabs = 0
    /\ \A i \in 2..Len(NonBlank(s)) : NonBlank(s)[i].tabs <= NonBlank(s)[i - 1].tabs + 1

\* the bytes of the language outside string literals and comments
LanguageBytes ==
    Letters \cup Digits
    \cup {"=", "+", "*", "<", ">", "(", ")", ":", ",", "\"", "#", " ", "\t", "\n", NUL}

(***************************************************************************)
(* C4: every NextToken call that returns a token other than EOF advances   *)
(* the input offset or changes the indent stack, so no token is returned   *)
(* from the same position forever.                                         *)
(***************************************************************************)
C4_EveryTokenMakesProgress ==
    [][tok'.Type # "EOF" =>
          (lx'.position # lx.position \/ lx'.indentStack # lx.indentStack)]_vars

(***************************************************************************)
(* C5: once NextToken has returned EOF, every later call returns EOF.      *)
(***************************************************************************)
C5_EofIsFinal == eofSeen => tok.Type = "EOF"

(***************************************************************************)
(* C6 as claimed: for a well-indented input, with or without a trailing    *)
(* newline, when EOF is returned as many DEDENT as INDENT tokens were      *)
(* returned and the indent stack is back to its single level 0.            *)
(***************************************************************************)
C6_BalancedAtEof ==
    (eofSeen /\ WellIndented(src)) => (nIndent = nDedent /\ lx.indentStack = <<0>>)

(***************************************************************************)
(* C6 amended: for a well-indented input that ends with a newline, when    *)
(* EOF is returned as many DEDENT as INDENT tokens were returned and the   *)
(* indent stack is back to its single level 0.                             *)
(***************************************************************************)
C6_BalancedAtEofAfterNewline ==
    (eofSeen /\ WellIndented(src) /\ EndsWithNewline(lx)) =>
        (nIndent = nDedent /\ lx.indentStack = <<0>>)

\* two nested blocks are open on the last line and EOF closes both
C6_Witness ==
    /\ eofSeen
    /\ WellIndented(src)
    /\ EndsWithNewline(lx)
    /\ Len(src.lines) = 3
    /\ \A i \in 1..3 : src.lines[i].tabs = i - 1 /\ src.lines[i].body = <<"x">>
    /\ nIndent = 2
    /\ nDedent = 2

(***************************************************************************)
(* C7: at the start of a non-blank line the leading-tab count is compared  *)
(* with the level on top of the indent stack: greater pushes it and        *)
(* returns INDENT, smaller pops and returns DEDENT, equal returns neither. *)
(* Stated for the sources in which no blank line carries a tab.            *)
(***************************************************************************)
C7_IndentComparedWithTopLevel ==
    [][(/\ \A i \in 1..Len(src.lines) :
              src.lines[i].body = <<>> => src.lines[i].tabs = 0
        /\ lx.startOfLine
        /\ AtLineStart(lx)
        /\ ByteAt(lx, lx.position + TabRun(lx, lx.position)) \notin {"\n", NUL, " "}
        /\ lx.ch # " ")
       => LET n == TabRun(lx, lx.position)
              top == Top(lx.indentStack)
          IN /\ n > top => (tok'.Type = "INDENT"
                            /\ lx'.indentStack = Append(lx.indentStack, n))
             /\ n < top => (tok'.Type = "DEDENT"
                            /\ lx'.indentStack =
                                  SubSeq(lx.indentStack, 1, Len(lx.indentStack) - 1))
             /\ n = top => (tok'.Type \notin {"INDENT", "DEDENT"}
                            /\ lx'.indentStack = lx.indentStack)]_vars

(***************************************************************************)
(* C8: a space as the first byte of a line yields ILLEGAL with the spaces  *)
(* message; a call that meets a carriage return, wherever it stands,       *)
(* returns ILLEGAL; a byte outside the language yields ILLEGAL.            *)
(***************************************************************************)
C8_LexErrorsAreIllegal ==
    [][/\ (lx.startOfLine /\ AtLineStart(lx) /\ lx.ch = " ")
             => (tok'.Type = "ILLEGAL" /\ tok'.Literal = SpacesMsg)
       /\ (\/ (lx.ch = "\r" /\ (~lx.startOfLine \/ lx.indentStack = <<0>>))
           \/ \E i \in lx.position .. (lx'.position - 1) : ByteAt(lx, i) = "\r")
             => tok'.Type = "ILLEGAL"
       /\ (lx.ch \notin LanguageBytes /\ lx.ch # "\r"
           /\ (~lx.startOfLine \/ lx.indentStack = <<0>>))
             => tok'.Type = "ILLEGAL"]_vars

(***************************************************************************)
(* C9: a call whose scan reaches `#` returns the NEWLINE that ends the     *)
(* line (or EOF) and has consumed the comment; no token, ILLEGAL or other, *)
(* is produced for the comment's bytes.                                    *)
(***************************************************************************)
C9_CommentYieldsNoToken ==
    [][(\/ (~lx.startOfLine /\ ByteAt(lx, PastBlanks(lx, lx.position)) = "#")
        \/ (lx.startOfLine /\ lx.indentStack = <<0>> /\ lx.ch = "#"))
       => tok'.Type \in {"NEWLINE", "EOF"}]_vars

(***************************************************************************)
(* ParseProgram, one iteration of a statement loop per step                *)
(***************************************************************************)
MaxSteps == 12
MaxNestLines == 4

ParseBodies ==
    { <<>>,
      <<"x","=","1">>,
      <<"i","f"," ","x",":">>,
      <<"e","l","s","e",":">>,
      <<"w","h","i","l","e"," ","x","<","1",":">>,
      <<"d","e","f"," ","f","(","a",")",":">>,
      <<"p","r","i","n","t","(","x">>,
      <<"p","r","i","n","t"," ","x">>,
      <<"1">>,
      <<"f","(","1"," ","2",")">> }

ParseLines == {[tabs |-> t, body |-> b] : t \in 0..MaxTabs, b \in ParseBodies}

\* indentation grows by at most one tab from a line to the next
StepIndented(ls) ==
    /\ Len(ls) > 0 => ls[1].tabs = 0
    /\ \A i \in 2..Len(ls) : ls[i].tabs <= ls[i - 1].tabs + 1

\* the bodies of the longer programs: a block header and a simple statement
NestBodies == { <<"i","f"," ","x",":">>, <<"x","=","1">> }

NestLines == {[tabs |-> t, body |-> b] : t \in 0..MaxTabs, b \in NestBodies}

ParseSources ==
    {[lines |-> ls, trailing |-> nl] :
        ls \in {q \in UNION {[1..n -> ParseLines] : n \in 0..MaxLines}
                         \cup [1..MaxNestLines -> NestLines] : StepIndented(q)},
        nl \in BOOLEAN}

ParseInit ==
    /\ src \in ParseSources
    /\ parser = NewParser(New(SourceText(src)))
    /\ stack = <<>>
    /\ program = <<>>
    /\ pc = "loop"
    /\ steps = 0
    /\ tables = NoTables
    /\ gen = NoGenerator
    /\ lx = NoLexer
    /\ tok = NoToken
    /\ nIndent = 0
    /\ nDedent = 0
    /\ nEof = 0

Apply(c) ==
    /\ parser' = c.p
    /\ stack' = c.stack
    /\ program' = c.program
    /\ pc' = c.pc

\* one iteration of the loop of ParseProgram (parser.go 41-76)
ParseProgramLoop ==
    /\ pc = "loop"
    /\ stack = <<>>
    /\ steps < MaxSteps
    /\ steps' = steps + 1
    /\ Apply(IF parser.currentToken.Type = "EOF"
             THEN Config(parser, stack, program, "done")
             ELSE IF parser.currentToken.Type = "NEWLINE"
             THEN Config(nextToken(parser), stack, program, "loop")
             ELSE statementStep(parser, stack, program))
    /\ UNCHANGED <<backVars, src, lexVars>>

\* one iteration of the loop of parseBlockStatement (parser.go 519-537)
BlockLoop ==
    /\ pc = "loop"
    /\ stack # <<>>
    /\ parser.currentToken.Type \notin {"DEDENT", "EOF"}
    /\ steps < MaxSteps
    /\ steps' = steps + 1
    /\ Apply(IF parser.currentToken.Type = "NEWLINE"
             THEN Config(nextToken(parser), stack, program, "loop")
             ELSE statementStep(parser, stack, program))
    /\ UNCHANGED <<backVars, src, lexVars>>

\* the loop of parseBlockStatement ends and the block's statement returns
BlockReturn ==
    /\ pc = "loop"
    /\ stack # <<>>
    /\ parser.currentToken.Type \in {"DEDENT", "EOF"}
    /\ steps < MaxSteps
    /\ steps' = steps + 1
    /\ Apply(blockReturns(parser, stack, program))
    /\ UNCHANGED <<backVars, src, lexVars>>

ParseNext == ParseProgramLoop \/ BlockLoop \/ BlockReturn

ParseSpec == ParseInit /\ [][ParseNext]_vars

(***************************************************************************)
(* Valid programs over the bodies above: assignments and if, while and def *)
(* headers, no blank line; the line after a header is one tab deeper than  *)
(* the header, any other line is no deeper than the line before it, and    *)
(* the last line is not a header.                                          *)
(***************************************************************************)
SimpleBodies == { <<"x","=","1">> }

HeaderBodies ==
    { <<"i","f"," ","x",":">>,
      <<"w","h","i","l","e"," ","x","<","1",":">>,
      <<"d","e","f"," ","f","(","a",")",":">> }

Valid(s) ==
    /\ Len(s.lines) > 0
    /\ s.lines[1].tabs = 0
    /\ s.lines[Len(s.lines)].body \in SimpleBodies
    /\ \A i \in 1..Len(s.lines) : s.lines[i].body \in SimpleBodies \cup HeaderBodies
    /\ \A i \in 2..Len(s.lines) :
           IF s.lines[i - 1].body \in HeaderBodies
           THEN s.lines[i].tabs = s.lines[i - 1].tabs + 1
           ELSE s.lines[i].tabs <= s.lines[i - 1].tabs

\* the statements written at top level: the lines without a tab
TopLevelCount(s) == Len(SelectSeq(s.lines, LAMBDA ln : ln.tabs = 0))

(***************************************************************************)
(* C1: when ParseProgram has returned for a valid program, the error list  *)
(* is empty and the Program holds as many statements as the source has     *)
(* top-level statements.                                                   *)
(***************************************************************************)
C1_StatementCountIsTopLevelCount ==
    (pc = "done" /\ Valid(src)) =>
        (parser.errors = <<>> /\ Len(program) = TopLevelCount(src))

(***************************************************************************)
(* C2: when ParseProgram has returned with a syntax error, the error list  *)
(* holds exactly one entry and the Program holds no statement.             *)
(***************************************************************************)
C2_OneErrorNoStatements ==
    (pc = "done" /\ parser.errors # <<>>) =>
        (Len(parser.errors) = 1 /\ program = <<>>)

(***************************************************************************)
(* C3: every iteration of the statement loop of ParseProgram or of         *)
(* parseBlockStatement that stays in its loop has consumed at least one    *)
(* token.                                                                  *)
(***************************************************************************)
C3_EveryIterationConsumes ==
    [][(/\ pc = "loop"
        /\ pc' = "loop"
        /\ ~(stack # <<>> /\ parser.currentToken.Type \in {"DEDENT", "EOF"}))
       => parser'.consumed > parser.consumed]_vars

(***************************************************************************)
(* parseExpression on a chain of binary operators                          *)
(***************************************************************************)
MaxOps == 3

Operators == {"+", "*", "<", ">"}

Operands == <<"a", "b", "c", "d", "e">>

\* the text a op1 b op2 c ... for the operators ops
RECURSIVE ChainText(_, _)
ChainText(ops, i) ==
    IF i > Len(ops) THEN <<Operands[i]>>
    ELSE <<Operands[i], ops[i]>> \o ChainText(ops, i + 1)

ChainSources ==
    {[lines |-> <<[tabs |-> 0, body |-> ChainText(ops, 1)]>>, trailing |-> FALSE] :
        ops \in UNION {[1..n -> Operators] : n \in 1..MaxOps}}

ExprInit ==
    /\ src \in ChainSources
    /\ parser = NewParser(New(SourceText(src)))
    /\ stack = <<>>
    /\ program = <<>>
    /\ pc = "loop"
    /\ steps = 0
    /\ tables = NoTables
    /\ gen = NoGenerator
    /\ lx = NoLexer
    /\ tok = NoToken
    /\ nIndent = 0
    /\ nDedent = 0
    /\ nEof = 0

\* one call of parseExpression on the whole chain; `program` takes the tree
CallParseExpression ==
    /\ pc = "loop"
    /\ With(parseExpression(parser), LAMBDA r :
            /\ parser' = r.p
            /\ program' = <<r.node>>)
    /\ pc' = "done"
    /\ steps' = steps + 1
    /\ UNCHANGED <<backVars, src, lexVars, stack>>

ExprNext == CallParseExpression

ExprSpec == ExprInit /\ [][ExprNext]_vars

\* the tree ((a op1 b) op2 c) ... of the first n operators of the chain
RECURSIVE LeftTree(_, _)
LeftTree(body, n) ==
    IF n = 0 THEN [kind |-> "Identifier", Value |-> body[1]]
    ELSE BinaryExpression(LeftTree(body, n - 1), body[2 * n],
                          [kind |-> "Identifier", Value |-> body[2 * n + 1]])

(***************************************************************************)
(* C10: the tree parseExpression returns for a op1 b op2 c ... groups the  *)
(* operators left to right: ((a op1 b) op2 c) ...                          *)
(***************************************************************************)
C10_ChainGroupsLeftToRight ==
    pc = "done" =>
        program[1] = LeftTree(src.lines[1].body, (Len(src.lines[1].body) - 1) \div 2)

(***************************************************************************)
(* ParseProgram on one statement that holds a parenthesized expression or  *)
(* a function call in each position where an expression is allowed        *)
(***************************************************************************)
\* the operand forms: an identifier, a parenthesized expression, a call
OperandForms ==
    { <<"a">>,
      <<"(","a",")">>,
      <<"(","a","+","b",")">>,
      <<"f","(",")">>,
      <<"f","(","1",")">>,
      <<"g","(","1",",","2",")">> }

\* the lines of the program that holds the operand e in position k
PositionLines(k, e) ==
    CASE k = "assigned" -> <<[tabs |-> 0, body |-> <<"x","=">> \o e]>>
      [] k = "left" -> <<[tabs |-> 0, body |-> <<"x","=">> \o e \o <<"*","c">>]>>
      [] k = "right" -> <<[tabs |-> 0, body |-> <<"x","=","c","*">> \o e]>>
      [] k = "argument" -> <<[tabs |-> 0, body |-> <<"h","(">> \o e \o <<")">>]>>
      [] k = "firstArgument" ->
            <<[tabs |-> 0, body |-> <<"h","(">> \o e \o <<",","2",")">>]>>
      [] k = "print" ->
            <<[tabs |-> 0, body |-> <<"p","r","i","n","t","(">> \o e \o <<")">>]>>
      [] k = "if" -> <<[tabs |-> 0, body |-> <<"i","f"," ">> \o e \o <<":">>],
                       [tabs |-> 1, body |-> <<"x","=","1">>]>>
      [] k = "while" ->
            <<[tabs |-> 0, body |-> <<"w","h","i","l","e"," ">> \o e \o <<":">>],
              [tabs |-> 1, body |-> <<"x","=","1">>]>>

Positions ==
    {"assigned", "left", "right", "argument", "firstArgument", "print", "if", "while"}

PositionSources ==
    {[lines |-> PositionLines(k, e), trailing |-> nl] :
        k \in Positions, e \in OperandForms, nl \in BOOLEAN}

PositionInit ==
    /\ src \in PositionSources
    /\ parser = NewParser(New(SourceText(src)))
    /\ stack = <<>>
    /\ program = <<>>
    /\ pc = "loop"
    /\ steps = 0
    /\ tables = NoTables
    /\ gen = NoGenerator
    /\ lx = NoLexer
    /\ tok = NoToken
    /\ nIndent = 0
    /\ nDedent = 0
    /\ nEof = 0

PositionSpec == PositionInit /\ [][ParseNext]_vars

(***************************************************************************)
(* C11: ParseProgram on a statement with a parenthesized expression or a   *)
(* function call as left operand, call argument, print argument or         *)
(* condition does not panic and returns no error and the one statement.    *)
(***************************************************************************)
C11_GroupAndCallAcceptedEverywhere ==
    (pc \in {"done", "panic"}) =>
        (pc = "done" /\ parser.errors = <<>> /\ Len(program) = 1
         /\ program[1] # NilStatement)

\* fmt.Sprintf("line %d: %s", n, msg) for the line numbers of the sources
Digit(n) == <<"0", "1", "2", "3", "4", "5", "6", "7", "8", "9">>[n + 1]

RECURSIVE Itoa(_)
Itoa(n) ==
    IF n < 0 THEN "-" \o Itoa(0 - n)
    ELSE IF n < 10 THEN Digit(n) ELSE Itoa(n \div 10) \o Digit(n % 10)

LineMessage(n, msg) == "line " \o Itoa(n) \o ": " \o msg

(***************************************************************************)
(* C12: every error message of the parser reads "line N: message" with N   *)
(* the 1-based source line of the token at which the error was detected    *)
(* (the current token or the peek token the parser was looking at).        *)
(***************************************************************************)
C12_ErrorNamesLineOfToken ==
    (parser # NoParser) =>
        \A i \in 1..Len(parser.errors) :
            parser.errors[i] \in
                {LineMessage(parser.detected[i].currentLine, parser.detected[i].msg),
                 LineMessage(parser.detected[i].peekLine, parser.detected[i].msg)}

(***************************************************************************)
(* Symbol tables (package symbol).  A *SymbolTable is an index into        *)
(* tables.heap, a nil parent is NoParent; a *Symbol carries the number of  *)
(* its allocation in ref.                                                  *)
(***************************************************************************)
NoParent == 0

NilSymbol == [ref |-> 0]

Symbol(ref, name, symType, address, isGlobal, isTemp, isPrint, scope) ==
    [ref |-> ref, Name |-> name, Type |-> symType, Address |-> address,
     IsGlobal |-> isGlobal, FuncParams |-> <<>>, IsTemp |-> isTemp,
     IsPrint |-> isPrint, Scope |-> scope]

\* m[k] = v on a Go map
Put(m, k, v) == [n \in DOMAIN m \cup {k} |-> IF n = k THEN v ELSE m[n]]

DefinePrint(st, ref) ==
    [st EXCEPT !.symbols =
        Put(st.symbols, "print",
            Symbol(ref, "print", "FUNCTION", 0, TRUE, FALSE, TRUE, ""))]

\* the table NewSymbolTable(parent) returns; ref is the allocation the
\* print symbol of a root table gets
NewSymbolTable(parent, ref) ==
    With([symbols |-> [n \in {} |-> NilSymbol], parent |-> parent, scopeName |-> "",
          nextOffset |-> 0, tempCount |-> 0, currentFunc |-> "", loopDepth |-> 0],
         LAMBDA st : IF parent = NoParent THEN DefinePrint(st, ref) ELSE st)

\* the calls below take the state t of the run (heap, allocations made,
\* Define/NewTemp calls made per table) and give the state after the call,
\* with the call and what it returned in ret
\* a Define that gives a name defined again the offset it already has
DefineKeepingOffset(t, s, name, symType) ==
    With(Symbol(t.allocated + 1, name, symType,
                IF name \in DOMAIN t.heap[s].symbols
                THEN t.heap[s].symbols[name].Address ELSE t.heap[s].nextOffset,
                t.heap[s].parent = NoParent, FALSE, FALSE, t.heap[s].scopeName),
         LAMBDA sym :
            [t EXCEPT !.heap[s].symbols = Put(t.heap[s].symbols, name, sym),
                      !.heap[s].nextOffset =
                          IF name \in DOMAIN t.heap[s].symbols
                          THEN t.heap[s].nextOffset ELSE t.heap[s].nextOffset + 4,
                      !.allocated = t.allocated + 1,
                      !.calls[s] = t.calls[s] + 1,
                      !.ret = [op |-> "Define", scope |-> s, name |-> name,
                               sym |-> sym, ok |-> TRUE]])

Define(t, s, name, symType) ==
    With(Symbol(t.allocated + 1, name, symType, t.heap[s].nextOffset,
                t.heap[s].parent = NoParent, FALSE, FALSE, t.heap[s].scopeName),
         LAMBDA sym :
            [t EXCEPT !.heap[s].symbols = Put(t.heap[s].symbols, name, sym),
                      !.heap[s].nextOffset = t.heap[s].nextOffset + 4,
                      !.allocated = t.allocated + 1,
                      !.calls[s] = t.calls[s] + 1,
                      !.ret = [op |-> "Define", scope |-> s, name |-> name,
                               sym |-> sym, ok |-> TRUE]])

TempName(n) == "_t" \o Itoa(n)

NewTemp(t, s, symType) ==
    With(Symbol(t.allocated + 1, TempName(t.heap[s].tempCount + 1), symType,
                t.heap[s].nextOffset, FALSE, TRUE, FALSE, t.heap[s].scopeName),
         LAMBDA sym :
            [t EXCEPT !.heap[s].tempCount = t.heap[s].tempCount + 1,
                      !.heap[s].symbols = Put(t.heap[s].symbols, sym.Name, sym),
                      !.heap[s].nextOffset = t.heap[s].nextOffset + 4,
                      !.allocated = t.allocated + 1,
                      !.calls[s] = t.calls[s] + 1,
                      !.ret = [op |-> "NewTemp", scope |-> s, name |-> sym.Name,
                               sym |-> sym, ok |-> TRUE]])

EnterScope(t, s, scopeType) ==
    [t EXCEPT !.heap = Append(t.heap,
                  [NewSymbolTable(s, 0) EXCEPT
                      !.scopeName = scopeType,
                      !.loopDepth = IF scopeType = "while" \/ scopeType = "for"
                                    THEN t.heap[s].loopDepth + 1
                                    ELSE t.heap[s].loopDepth]),
              !.calls = Append(t.calls, 0),
              !.ret = [op |-> "EnterScope", scope |-> s, name |-> scopeType,
                       sym |-> NilSymbol, ok |-> TRUE]]

\* a lookup that reads the table itself and falls back to the root table only
LookupInOwnOrRoot(h, s, name) ==
    IF name \in DOMAIN h[s].symbols
    THEN [sym |-> h[s].symbols[name], ok |-> TRUE]
    ELSE IF name \in DOMAIN h[1].symbols
    THEN [sym |-> h[1].symbols[name], ok |-> TRUE]
    ELSE [sym |-> NilSymbol, ok |-> FALSE]

RECURSIVE LookupIn(_, _, _)
\* st.Lookup(name) on the table s of the heap h: the pair (sym, exists)
LookupIn(h, s, name) ==
    IF name \in DOMAIN h[s].symbols
    THEN [sym |-> h[s].symbols[name], ok |-> TRUE]
    ELSE IF h[s].parent # NoParent
    THEN LookupIn(h, h[s].parent, name)
    ELSE [sym |-> NilSymbol, ok |-> FALSE]

Lookup(t, s, name) ==
    With(LookupIn(t.heap, s, name), LAMBDA r :
        [t EXCEPT !.ret = [op |-> "Lookup", scope |-> s, name |-> name,
                           sym |-> r.sym, ok |-> r.ok]])

\* the state after symbol.NewSymbolTable(nil): one root table
RootTable ==
    [heap |-> <<NewSymbolTable(NoParent, 1)>>, allocated |-> 1, calls |-> <<0>>,
     ret |-> [op |-> "NewSymbolTable", scope |-> 1, name |-> "",
              sym |-> NilSymbol, ok |-> TRUE]]

(***************************************************************************)
(* A client of package symbol: it creates the root table and then calls    *)
(* Define, NewTemp, EnterScope and Lookup on the tables it holds.          *)
(***************************************************************************)
MaxScopes == 3
MaxSymbols == 2

SymbolNames == {"x", "print"}
LookupNames == {"x", "print"}
SymbolTypes == {"INTEGER", "FUNCTION"}
ScopeTypes == {"while"}

NoSource == [lines |-> <<>>, trailing |-> FALSE]

FrontIdle ==
    /\ src = NoSource
    /\ lx = NoLexer
    /\ tok = NoToken
    /\ nIndent = 0
    /\ nDedent = 0
    /\ nEof = 0
    /\ parser = NoParser
    /\ stack = <<>>
    /\ program = <<>>
    /\ pc = "idle"

SymbolInit ==
    /\ FrontIdle
    /\ steps = 0
    /\ gen = NoGenerator
    /\ tables = RootTable

frontVars == <<src, lexVars, parser, stack, program, pc>>

CallDefine ==
    /\ tables # NoTables
    /\ tables.allocated <= MaxSymbols
    /\ \E s \in 1..Len(tables.heap), name \in SymbolNames, symType \in SymbolTypes :
          tables' = Define(tables, s, name, symType)
    /\ UNCHANGED <<frontVars, steps, gen>>

CallNewTemp ==
    /\ tables # NoTables
    /\ tables.allocated <= MaxSymbols
    /\ \E s \in 1..Len(tables.heap), symType \in SymbolTypes :
          tables' = NewTemp(tables, s, symType)
    /\ UNCHANGED <<frontVars, steps, gen>>

CallEnterScope ==
    /\ tables # NoTables
    /\ Len(tables.heap) < MaxScopes
    /\ \E s \in 1..Len(tables.heap), scopeType \in ScopeTypes :
          tables' = EnterScope(tables, s, scopeType)
    /\ UNCHANGED <<frontVars, steps, gen>>

CallLookup ==
    /\ tables # NoTables
    /\ \E s \in 1..Len(tables.heap), name \in LookupNames :
          tables' = Lookup(tables, s, name)
    /\ UNCHANGED <<frontVars, steps, gen>>

SymbolNext == CallDefine \/ CallNewTemp \/ CallEnterScope \/ CallLookup

SymbolSpec == SymbolInit /\ [][SymbolNext]_vars

\* the tables on the parent chain of s: s itself, its parent, and so on
RECURSIVE Chain(_, _)
Chain(h, s) == IF s = NoParent THEN {} ELSE {s} \cup Chain(h, h[s].parent)

\* number of parent links from s to the ancestor a
RECURSIVE Distance(_, _, _)
Distance(h, s, a) == IF s = a THEN 0 ELSE 1 + Distance(h, h[s].parent, a)

Holders(h, s, name) == {a \in Chain(h, s) : name \in DOMAIN h[a].symbols}

(***************************************************************************)
(* C13: Lookup(name) on a scope S returns the symbol of the nearest table  *)
(* on the parent chain of S that holds the name, and not-found when no     *)
(* table of the chain holds it; it never returns a symbol held only by a   *)
(* table outside the chain (a child or a sibling).                         *)
(***************************************************************************)
C13_LookupReturnsNearestOnChain ==
    (tables # NoTables /\ tables.ret.op = "Lookup") =>
        LET h == tables.heap
            r == tables.ret
            holders == Holders(h, r.scope, r.name)
        IN /\ r.ok = (holders # {})
           /\ ~r.ok => r.sym = NilSymbol
           /\ r.ok =>
                \E a \in holders :
                    /\ \A b \in holders :
                          Distance(h, r.scope, a) <= Distance(h, r.scope, b)
                    /\ r.sym = h[a].symbols[r.name]

\* a Lookup on a child finds a name that its parent got after the child was
\* entered, while the parent's parent and another child hold other symbols
\* of that name
C13_Witness ==
    /\ tables # NoTables
    /\ tables.ret.op = "Lookup"
    /\ tables.ret.ok
    /\ tables.ret.name = "x"
    /\ Len(tables.heap) = 3
    /\ tables.heap[2].parent = 1
    /\ tables.heap[3].parent = 2
    /\ tables.ret.scope = 3
    /\ "x" \notin DOMAIN tables.heap[3].symbols
    /\ "x" \in DOMAIN tables.heap[2].symbols
    /\ "x" \in DOMAIN tables.heap[1].symbols
    /\ tables.ret.sym = tables.heap[2].symbols["x"]
    /\ tables.ret.sym # tables.heap[1].symbols["x"]

(***************************************************************************)
(* C14: after any sequence of Define, NewTemp, EnterScope and Lookup calls *)
(* the root table holds the name print with Type FunctionType and IsPrint  *)
(* true.                                                                   *)
(***************************************************************************)
C14_RootKeepsPrint ==
    (tables # NoTables) =>
        /\ "print" \in DOMAIN tables.heap[1].symbols
        /\ tables.heap[1].symbols["print"].Type = "FUNCTION"
        /\ tables.heap[1].symbols["print"].IsPrint

(***************************************************************************)
(* C15: the k-th Define or NewTemp call on a table returns a symbol with   *)
(* Address 4*(k-1) and leaves the table's next offset at 4*k, also when it *)
(* redefines a name; a symbol returned by Define has IsGlobal true exactly *)
(* when the table has no parent.                                           *)
(***************************************************************************)
C15_AddressesCountCalls ==
    (tables # NoTables /\ tables.ret.op \in {"Define", "NewTemp"}) =>
        LET r == tables.ret
            k == tables.calls[r.scope]
        IN /\ r.sym.Address = 4 * (k - 1)
           /\ tables.heap[r.scope].nextOffset = 4 * k
           /\ tables.heap[r.scope].symbols[r.name] = r.sym
           /\ (r.op = "Define") =>
                (r.sym.IsGlobal = (tables.heap[r.scope].parent = NoParent))

\* the second call on a child table redefines the name the first one defined
C15_Witness ==
    /\ tables # NoTables
    /\ tables.ret.op = "Define"
    /\ tables.ret.scope = 2
    /\ tables.calls[2] = 2
    /\ tables.ret.sym.Address = 4
    /\ ~tables.ret.sym.IsGlobal
    /\ DOMAIN tables.heap[2].symbols = {"x"}
    /\ tables.heap[2].nextOffset = 8

(***************************************************************************)
(* The code generator (package codegen).  The output is kept as the        *)
(* sequence of its lines, a line as the tuple of its words: the line       *)
(* "    move $a0, $t1" is <<"move", "$a0", "$t1">>, an empty line is <<>>. *)
(* usedRegs is the set of registers the map holds as true.  A call that    *)
(* panics sets panicked, and nothing after it in the call runs.            *)
(***************************************************************************)
NumRegisters == 10
MaxArgRegs == 4

NoRegister == 0 - 1

T(reg) == "$t" \o Itoa(reg)

A(i) == "$a" \o Itoa(i)

\* codegen.New(symTable)
NewGenerator(symTable) ==
    [symbolTable |-> symTable, output |-> <<>>, labelCount |-> 0, nextReg |-> 0,
     usedRegs |-> {}, stringLiterals |-> <<>>, currentFunction |-> "",
     currentParams |-> <<>>, panicked |-> FALSE]

\* g.output.WriteString of whole lines
Emit(g, lines) == IF g.panicked THEN g ELSE [g EXCEPT !.output = g.output \o lines]

\* the pair (generator after the call, register returned)
Reg(g, reg) == [g |-> g, reg |-> reg]

allocateRegister(g) ==
    IF g.panicked THEN Reg(g, NoRegister)
    ELSE IF \E i \in 0..(NumRegisters - 1) : i \notin g.usedRegs
    THEN With(CHOOSE i \in 0..(NumRegisters - 1) :
                  /\ i \notin g.usedRegs
                  /\ \A j \in 0..(i - 1) : j \in g.usedRegs,
              LAMBDA i : Reg([g EXCEPT !.usedRegs = g.usedRegs \cup {i}], i))
    ELSE Reg([g EXCEPT !.panicked = TRUE], NoRegister)

freeRegister(g, reg) ==
    IF ~g.panicked /\ reg >= 0 /\ reg < NumRegisters
    THEN [g EXCEPT !.usedRegs = g.usedRegs \ {reg}]
    ELSE g

\* the index (from 0) of s in the string pool, or the pool's length
PoolIndex(pool, s) ==
    IF \E i \in 1..Len(pool) : pool[i] = s
    THEN (CHOOSE i \in 1..Len(pool) :
              pool[i] = s /\ \A j \in 1..(i - 1) : pool[j] # s) - 1
    ELSE Len(pool)

\* addStringLiteral as the pair (generator, label)
addStringLiteral(g, s) ==
    [g |-> IF g.panicked \/ PoolIndex(g.stringLiterals, s) < Len(g.stringLiterals)
           THEN g
           ELSE [g EXCEPT !.stringLiterals = Append(g.stringLiterals, s)],
     label |-> "str_" \o Itoa(PoolIndex(g.stringLiterals, s))]

\* Define without the Lookup that guards it
defineAlways(g, name, symType) ==
    IF g.panicked THEN g
    ELSE [g EXCEPT !.symbolTable = Define(g.symbolTable, 1, name, symType)]

\* g.symbolTable.Lookup(name) and, when absent, Define(name, symType)
defineIfAbsent(g, name, symType) ==
    IF g.panicked \/ LookupIn(g.symbolTable.heap, 1, name).ok THEN g
    ELSE [g EXCEPT !.symbolTable = Define(g.symbolTable, 1, name, symType)]

\* fmt.Sscanf(v, "%d", ...) succeeds: the text starts with a number
IntegerTexts == {"1", "2", "3", "5"}

RECURSIVE SaveLines(_, _)
\* the lines that push the used registers, from register reg upwards
SaveLines(used, reg) ==
    IF reg >= NumRegisters THEN <<>>
    ELSE (IF reg \in used
          THEN <<<<"sw", T(reg), "0($sp)">>, <<"addiu", "$sp", "$sp", "-4">>>>
          ELSE <<>>) \o SaveLines(used, reg + 1)

RECURSIVE RestoreLinesAscending(_, _)
\* the pops in the order of the pushes, from register reg upwards
RestoreLinesAscending(saved, reg) ==
    IF reg < 0 \/ reg >= NumRegisters THEN <<>>
    ELSE (IF (NumRegisters - 1 - reg) \in saved
          THEN <<<<"addiu", "$sp", "$sp", "4">>,
                 <<"lw", T(NumRegisters - 1 - reg), "0($sp)">>>>
          ELSE <<>>) \o RestoreLinesAscending(saved, reg - 1)

RECURSIVE RestoreLines(_, _)
\* the lines that pop the saved registers, from register reg downwards
RestoreLines(saved, reg) ==
    IF reg < 0 THEN <<>>
    ELSE (IF reg \in saved
          THEN <<<<"addiu", "$sp", "$sp", "4">>, <<"lw", T(reg), "0($sp)">>>>
          ELSE <<>>) \o RestoreLines(saved, reg - 1)

OperatorLine(operator, resultReg, leftReg, rightReg) ==
    CASE operator = "+" -> <<<<"add", T(resultReg), T(leftReg), T(rightReg)>>>>
      [] operator = "-" -> <<<<"sub", T(resultReg), T(leftReg), T(rightReg)>>>>
      [] operator = "*" -> <<<<"mul", T(resultReg), T(leftReg), T(rightReg)>>>>
      [] operator = "<" -> <<<<"slt", T(resultReg), T(leftReg), T(rightReg)>>>>
      [] operator = ">" -> <<<<"slt", T(resultReg), T(rightReg), T(leftReg)>>>>
      [] OTHER -> <<>>

\* the parameter of the current function that e names, from 0, or -1
ParamIndex(g, name) ==
    IF g.currentFunction # "" /\ \E i \in 1..Len(g.currentParams) : g.currentParams[i] = name
    THEN (CHOOSE i \in 1..Len(g.currentParams) :
              /\ g.currentParams[i] = name
              /\ \A j \in 1..(i - 1) : g.currentParams[j] # name) - 1
    ELSE NoRegister

generateIdentifier(g, e, reg) ==
    IF ParamIndex(g, e.Value) >= 0
    THEN Reg(Emit(g, <<<<"lw", T(reg),
                        Itoa(16 - ParamIndex(g, e.Value) * 4) \o "($fp)">>>>), reg)
    ELSE IF ~LookupIn(g.symbolTable.heap, 1, e.Value).ok
    THEN IF e.Value \in IntegerTexts
         THEN Reg(Emit(g, <<<<"li", T(reg), e.Value>>>>), reg)
         ELSE Reg(freeRegister(g, reg), NoRegister)
    ELSE Reg(Emit(g, <<<<"lw", T(reg),
                        LookupIn(g.symbolTable.heap, 1, e.Value).sym.Name>>>>), reg)

RECURSIVE generateExpression(_, _)
RECURSIVE generateFunctionCall(_, _)
RECURSIVE generateArguments(_, _, _)

\* the loop over call.Arguments from the i-th argument (from 1) on
generateArguments(g, arguments, i) ==
    IF i > Len(arguments) \/ i - 1 >= MaxArgRegs THEN g
    ELSE With(generateExpression(g, arguments[i]), LAMBDA r :
            generateArguments(
                IF r.reg # NoRegister
                THEN freeRegister(Emit(r.g, <<<<"move", A(i - 1), T(r.reg)>>>>), r.reg)
                ELSE r.g,
                arguments, i + 1))

generateFunctionCall(g, call) ==
    IF g.panicked \/ call = NilFunctionCall THEN Reg(panic(g), NoRegister)
    ELSE With(generateArguments(Emit(g, SaveLines(g.usedRegs, 0)), call.Arguments, 1),
              LAMBDA g1 :
         With(allocateRegister(
                  Emit(g1, <<<<"jal", call.Function>>>>
                           \o RestoreLines(g.usedRegs, NumRegisters - 1))),
              LAMBDA r : Reg(Emit(r.g, <<<<"move", T(r.reg), "$v0">>>>), r.reg)))

generateBinaryExpression(g, e, leftReg, rightReg) ==
    With(allocateRegister(g), LAMBDA r :
        Reg(freeRegister(freeRegister(
                Emit(r.g, OperatorLine(e.Operator, r.reg, leftReg, rightReg)),
                leftReg), rightReg),
            r.reg))

generateExpression(g, expr) ==
    IF g.panicked \/ expr = Nil THEN Reg(g, NoRegister)
    ELSE CASE expr.kind = "IntegerLiteral" ->
                With(allocateRegister(g), LAMBDA r :
                    Reg(Emit(r.g, <<<<"li", T(r.reg), expr.Value>>>>), r.reg))
           [] expr.kind = "StringLiteral" ->
                With(allocateRegister(g), LAMBDA r :
                    With(addStringLiteral(r.g, expr.Value), LAMBDA a :
                        Reg(Emit(a.g, <<<<"la", T(r.reg), a.label>>>>), r.reg)))
           [] expr.kind = "Identifier" ->
                With(allocateRegister(g), LAMBDA r :
                    generateIdentifier(r.g, expr, r.reg))
           [] expr.kind = "BinaryExpression" ->
                IF expr.Left = Nil \/ expr.Right = Nil THEN Reg(g, NoRegister)
                ELSE With(generateExpression(g, expr.Left), LAMBDA l :
                        IF l.reg = NoRegister THEN Reg(l.g, NoRegister)
                        ELSE With(generateExpression(l.g, expr.Right), LAMBDA r :
                                IF r.reg = NoRegister
                                THEN Reg(freeRegister(r.g, l.reg), NoRegister)
                                ELSE generateBinaryExpression(r.g, expr, l.reg, r.reg)))
           [] expr.kind = "FunctionCall" -> generateFunctionCall(g, expr)
           [] OTHER -> Reg(g, NoRegister)

Program(statements) == [kind |-> "Program", Statements |-> statements]

RECURSIVE collectSymbols(_, _)
RECURSIVE collectAll(_, _, _)

\* collectSymbols on the statements of a list, from the i-th on
collectAll(g, statements, i) ==
    IF i > Len(statements) THEN g
    ELSE collectAll(collectSymbols(g, statements[i]), statements, i + 1)

\* what collectSymbols does with an operand of a BinaryExpression
collectOperand(g, operand) ==
    IF operand = Nil THEN g
    ELSE collectSymbols(IF operand.kind = "Identifier"
                        THEN defineIfAbsent(g, operand.Value, "INTEGER")
                        ELSE g,
                        operand)

\* the condition of an if or a while: collected, and its operands once more
collectCondition(g, condition) ==
    IF condition = Nil THEN g
    ELSE With(collectSymbols(g, condition), LAMBDA g1 :
            IF condition.kind = "BinaryExpression"
            THEN collectSymbols(collectSymbols(g1, condition.Left), condition.Right)
            ELSE g1)

collectSymbols(g, node) ==
    IF node \in {Nil, NilStatement, NilFunctionCall} THEN g
    ELSE CASE node.kind = "Program" -> collectAll(g, node.Statements, 1)
           [] node.kind = "AssignmentStatement" ->
                collectSymbols(
                    defineIfAbsent(g, node.Name,
                                   IF node.Value # Nil /\ node.Value.kind = "StringLiteral"
                                   THEN "STRING" ELSE "INTEGER"),
                    node.Value)
           [] node.kind = "BinaryExpression" ->
                collectOperand(collectOperand(g, node.Left), node.Right)
           [] node.kind = "StringLiteral" -> addStringLiteral(g, node.Value).g
           [] node.kind = "IfStatement" ->
                collectAll(collectAll(collectCondition(g, node.Condition),
                                      node.Consequence, 1),
                           node.Alternative, 1)
           [] node.kind = "WhileStatement" ->
                collectAll(collectCondition(g, node.Condition), node.Body, 1)
           [] node.kind = "Identifier" -> defineIfAbsent(g, node.Value, "INTEGER")
           [] node.kind = "PrintStatement" -> collectSymbols(g, node.Value)
           [] node.kind = "ExpressionStatement" -> collectSymbols(g, node.Expression)
           [] OTHER -> g

generateAssignment(g, stmt) ==
    IF stmt.Value = Nil THEN g
    ELSE IF stmt.Value.kind = "FunctionCall"
    THEN With(generateFunctionCall(g, stmt.Value), LAMBDA r :
            IF r.reg = NoRegister THEN r.g
            ELSE freeRegister(
                    Emit([r.g EXCEPT !.symbolTable =
                              Define(r.g.symbolTable, 1, stmt.Name, "INTEGER")],
                         <<<<"sw", "$v0", stmt.Name>>>>),
                    r.reg))
    ELSE With(generateExpression(g, stmt.Value), LAMBDA r :
            IF r.reg = NoRegister THEN r.g
            ELSE freeRegister(
                    Emit(defineIfAbsent(r.g, stmt.Name, "INTEGER"),
                         <<<<"sw", T(r.reg), stmt.Name>>>>),
                    r.reg))

generatePrintStatement(g, stmt) ==
    IF stmt.Value = Nil THEN g
    ELSE IF stmt.Value.kind = "StringLiteral"
    THEN Emit(g, <<<<"li", "$v0", "4">>, <<"la", "$a0", stmt.Value.Value>>,
                   <<"syscall">>>>)
    ELSE IF stmt.Value.kind = "Identifier"
            /\ LookupIn(g.symbolTable.heap, 1, stmt.Value.Value).ok
    THEN Emit(g, <<<<"li", "$v0",
                     IF LookupIn(g.symbolTable.heap, 1, stmt.Value.Value).sym.Type
                            = "STRING"
                     THEN "4" ELSE "1">>,
                   <<"lw", "$a0", stmt.Value.Value>>, <<"syscall">>,
                   <<"li", "$v0", "11">>, <<"li", "$a0", "10">>, <<"syscall">>>>)
    ELSE g

RECURSIVE generateNode(_, _)
RECURSIVE generateAll(_, _, _)

\* generateNode on the statements of a list, from the i-th on
generateAll(g, statements, i) ==
    IF i > Len(statements) THEN g
    ELSE generateAll(generateNode(g, statements[i]), statements, i + 1)

\* the comparison generateIfStatement writes for a binary condition
generateIfCondition(g, condition, ifTrue) ==
    IF condition.kind # "BinaryExpression" THEN g
    ELSE With(generateExpression(g, condition.Left), LAMBDA l :
         With(generateExpression(l.g, condition.Right), LAMBDA r :
            freeRegister(freeRegister(
                Emit(r.g,
                     IF condition.Operator = ">"
                     THEN <<<<"lw", T(l.reg), "x">>, <<"li", T(r.reg), "0">>,
                            <<"bgt", T(l.reg), T(r.reg), ifTrue>>>>
                     ELSE <<>>),
                l.reg), r.reg)))

\* generateIfStatement with n the label count it found
generateIfBranches(g, stmt, n) ==
    With(generateAll(
             Emit(generateIfCondition(g, stmt.Condition, "if_true_" \o Itoa(n)),
                  <<<<"j", "if_false_" \o Itoa(n)>>, <<>>,
                    <<"if_true_" \o Itoa(n) \o ":">>>>),
             stmt.Consequence, 1),
         LAMBDA g1 :
            IF stmt.Alternative = <<>>
            THEN Emit(g1, <<<<>>, <<"if_false_" \o Itoa(n) \o ":">>>>)
            ELSE Emit(generateAll(
                          Emit(g1, <<<<"j", "if_end_" \o Itoa(n)>>, <<>>,
                                     <<"if_false_" \o Itoa(n) \o ":">>>>),
                          stmt.Alternative, 1),
                      <<<<>>, <<"if_end_" \o Itoa(n) \o ":">>>>))

generateIfStatement(g, stmt) ==
    IF stmt.Condition = Nil THEN g
    ELSE generateIfBranches([g EXCEPT !.labelCount = g.labelCount + 1], stmt,
                            g.labelCount)

\* the lines generateWhileStatement writes for a binary condition
WhileConditionLines(condition, endLabel) ==
    IF condition.kind # "BinaryExpression" THEN <<>>
    ELSE (IF condition.Left # Nil /\ condition.Left.kind = "Identifier"
          THEN <<<<"lw", "$t0", condition.Left.Value>>>> ELSE <<>>)
         \o <<<<"li", "$t1",
                IF condition.Right # Nil /\ condition.Right.kind = "IntegerLiteral"
                THEN condition.Right.Value ELSE "10">>,
              <<"bge", "$t0", "$t1", endLabel>>>>

generateWhileStatement(g, stmt) ==
    IF stmt.Condition = Nil THEN g
    ELSE Emit(generateAll(
                  Emit([g EXCEPT !.labelCount = g.labelCount + 1],
                       <<<<"while_start_" \o Itoa(g.labelCount) \o ":">>>>
                       \o WhileConditionLines(stmt.Condition,
                                              "while_end_" \o Itoa(g.labelCount))),
                  stmt.Body, 1),
              <<<<"j", "while_start_" \o Itoa(g.labelCount)>>,
                <<"while_end_" \o Itoa(g.labelCount) \o ":">>>>)

generateNode(g, node) ==
    IF g.panicked \/ node \in {Nil, NilStatement} THEN g
    ELSE CASE node.kind = "Program" -> generateAll(g, node.Statements, 1)
           [] node.kind = "AssignmentStatement" -> generateAssignment(g, node)
           [] node.kind = "IfStatement" -> generateIfStatement(g, node)
           [] node.kind = "WhileStatement" -> generateWhileStatement(g, node)
           [] node.kind = "PrintStatement" -> generatePrintStatement(g, node)
           [] node.kind = "FunctionCall" -> generateFunctionCall(g, node).g
           [] OTHER -> g

\* the lines Generate writes for the slice GetSymbols returned, from index i:
\* the loop variable of `for name := range symbols` is the index
RECURSIVE WordLines(_, _)
WordLines(i, n) ==
    IF i >= n THEN <<>>
    ELSE <<<<Itoa(i) \o ":", ".word", "0">>>> \o WordLines(i + 1, n)

\* Generate(node): the generator after the call; its output is what the call
\* returns unless it panicked
Generate(g, node) ==
    With(collectSymbols([g EXCEPT !.symbolTable = RootTable, !.labelCount = 1,
                                  !.output = <<>>, !.panicked = FALSE],
                        node),
         LAMBDA g1 :
            Emit(generateNode(
                     Emit(g1, <<<<".data">>, <<"newline:", ".asciiz", "\"\\n\"">>>>
                              \o WordLines(0, Cardinality(DOMAIN g1.symbolTable.heap[1].symbols))
                              \o <<<<>>, <<".text">>, <<"main:">>>>),
                     node),
                 <<<<>>, <<"li", "$v0", "10">>, <<"syscall">>>>))

(***************************************************************************)
(* A client of the register pool: it allocates and frees registers of one  *)
(* generator.  gen.call holds the last call and what it returned.          *)
(***************************************************************************)
RegisterInit ==
    /\ FrontIdle
    /\ steps = 0
    /\ tables = NoTables
    /\ gen = [g |-> NewGenerator(RootTable), call |-> [op |-> "New"]]

CallAllocateRegister ==
    /\ gen # NoGenerator
    /\ ~gen.g.panicked
    /\ gen' = With(allocateRegister(gen.g), LAMBDA r :
                [g |-> r.g,
                 call |-> [op |-> "allocateRegister", usedBefore |-> gen.g.usedRegs,
                           reg |-> r.reg]])
    /\ UNCHANGED <<frontVars, steps, tables>>

CallFreeRegister ==
    /\ gen # NoGenerator
    /\ ~gen.g.panicked
    /\ \E reg \in NoRegister..NumRegisters :
          gen' = [g |-> freeRegister(gen.g, reg),
                  call |-> [op |-> "freeRegister", reg |-> reg]]
    /\ UNCHANGED <<frontVars, steps, tables>>

RegisterNext == CallAllocateRegister \/ CallFreeRegister

RegisterSpec == RegisterInit /\ [][RegisterNext]_vars

(***************************************************************************)
(* C16: allocateRegister returns the lowest-numbered register of $t0..$t9  *)
(* that is not in use and marks it used; when all ten are in use it        *)
(* returns register 9 and does not fail.                                   *)
(***************************************************************************)
C16_LowestFreeOrNine ==
    (gen # NoGenerator /\ gen.call.op = "allocateRegister") =>
        /\ ~gen.g.panicked
        /\ gen.call.reg \in gen.g.usedRegs
        /\ IF gen.call.usedBefore = 0..(NumRegisters - 1)
           THEN gen.call.reg = NumRegisters - 1
           ELSE /\ gen.call.reg \notin gen.call.usedBefore
                /\ \A j \in 0..(gen.call.reg - 1) : j \in gen.call.usedBefore

(***************************************************************************)
(* A client of Generate: it creates one generator and calls Generate on    *)
(* it, several times, with programs built as the tests build them.         *)
(***************************************************************************)
MaxGenerates == 3

Ident(name) == Identifier(Token("IDENT", name, 1, 1))

Integer(text) == IntegerLiteral(Token("INT", text, 1, 1))

Str(text) == StringLiteral(Token("STRING", text, 1, 1))

Programs ==
    { <<AssignmentStatement("x", Integer("1"))>>,
      <<AssignmentStatement("x", Str("a"))>>,
      <<AssignmentStatement("x", Str("b")), AssignmentStatement("y", Str("b"))>>,
      <<AssignmentStatement("x", BinaryExpression(Ident("y"), "+", Integer("2")))>>,
      <<AssignmentStatement("x", Integer("1")), PrintStatement(Ident("x"))>>,
      <<PrintStatement(Str("a"))>>,
      <<PrintStatement(Integer("5"))>>,
      <<AssignmentStatement("x", Integer("1")),
        PrintStatement(BinaryExpression(Ident("x"), "+", Integer("1")))>>,
      <<IfStatement(BinaryExpression(Ident("x"), ">", Integer("1")),
                    <<AssignmentStatement("y", Integer("2"))>>,
                    <<AssignmentStatement("y", Integer("3"))>>)>>,
      <<IfStatement(BinaryExpression(Ident("x"), ">", Integer("1")),
                    <<AssignmentStatement("y", Integer("2"))>>, <<>>)>>,
      <<WhileStatement(BinaryExpression(Ident("x"), "<", Integer("3")),
                       <<AssignmentStatement("x",
                            BinaryExpression(Ident("x"), "+", Integer("1")))>>)>>,
      <<WhileStatement(BinaryExpression(Ident("x"), ">", Integer("3")),
                       <<AssignmentStatement("x",
                            BinaryExpression(Ident("x"), "+", Integer("1")))>>)>>,
      <<FunctionDefinition("f", <<"a">>, <<ReturnStatement(Ident("a"))>>),
        AssignmentStatement("x", FunctionCall("f", <<Integer("1")>>))>>,
      <<AssignmentStatement("x", FunctionCall("f", <<Integer("1"), Integer("2")>>))>>,
      <<AssignmentStatement("y", Integer("1")),
        AssignmentStatement("x", FunctionCall("f", <<Ident("y"), Integer("2")>>))>>,
      <<AssignmentStatement("x",
            FunctionCall("f", <<FunctionCall("g", <<Integer("1")>>), Integer("2")>>))>>,
      <<AssignmentStatement("x",
            FunctionCall("f", <<Integer("1"), FunctionCall("g", <<Integer("2")>>)>>))>>,
      <<AssignmentStatement("x",
            BinaryExpression(Integer("1"), "+", FunctionCall("f", <<Integer("2")>>)))>> }

GenerateInit ==
    /\ FrontIdle
    /\ steps = 0
    /\ tables = NoTables
    /\ gen = [g |-> NewGenerator(RootTable), call |-> [op |-> "New"]]

CallGenerate ==
    /\ gen # NoGenerator
    /\ steps < MaxGenerates
    /\ steps' = steps + 1
    /\ \E statements \in Programs :
          gen' = [g |-> Generate(gen.g, Program(statements)),
                  call |-> [op |-> "Generate", node |-> Program(statements)]]
    /\ UNCHANGED <<frontVars, tables>>

GenerateNext == CallGenerate

GenerateSpec == GenerateInit /\ [][GenerateNext]_vars

(***************************************************************************)
(* C17: Generate(P) on a generator that has generated before returns what  *)
(* Generate(P) returns on a fresh generator.                               *)
(***************************************************************************)
C17_GenerateForgetsEarlierRuns ==
    (gen # NoGenerator /\ gen.call.op = "Generate") =>
        gen.g.output = Generate(NewGenerator(RootTable), gen.call.node).output

\* the index of the first line of the output that is the given line, or 0
LineIndex(output, line) ==
    IF \E i \in 1..Len(output) : output[i] = line
    THEN CHOOSE i \in 1..Len(output) :
            output[i] = line /\ \A j \in 1..(i - 1) : output[j] # line
    ELSE 0

\* the lines between ".data" and the empty line before ".text"
DataSection(output) ==
    SubSeq(output, 2, LineIndex(output, <<".text">>) - 2)

Range(f) == {f[i] : i \in DOMAIN f}

(***************************************************************************)
(* C18: the .data section of the first Generate of a generator holds the   *)
(* newline constant, one `name: .word 0` line per collected variable and   *)
(* none for print, and one `str_N: .asciiz "..."` line per distinct string *)
(* literal of the program, and no other line.                              *)
(***************************************************************************)
C18_DataSectionLines ==
    (gen # NoGenerator /\ gen.call.op = "Generate" /\ steps = 1) =>
        LET data == DataSection(gen.g.output)
            variables == DOMAIN gen.g.symbolTable.heap[1].symbols \ {"print"}
            pool == gen.g.stringLiterals
        IN /\ gen.g.output[1] = <<".data">>
           /\ Len(data) = 1 + Cardinality(variables) + Len(pool)
           /\ Range(data) =
                {<<"newline:", ".asciiz", "\"\\n\"">>}
                \cup {<<v \o ":", ".word", "0">> : v \in variables}
                \cup {<<"str_" \o Itoa(i - 1) \o ":", ".asciiz",
                        "\"" \o pool[i] \o "\"">> : i \in 1..Len(pool)}

\* the index of the syscall line that ends main
ExitIndex(output) ==
    CHOOSE i \in 2..Len(output) :
        /\ output[i] = <<"syscall">>
        /\ output[i - 1] = <<"li", "$v0", "10">>
        /\ LineIndex(output, <<"main:">>) < i

(***************************************************************************)
(* C19: for each FunctionDefinition of the program the output holds, after *)
(* the exit syscall of main, exactly one line that is the label of the     *)
(* function, followed by the first line of the prologue; so every `jal f`  *)
(* to a function the program defines has its label in the output.          *)
(***************************************************************************)
C19_FunctionBlocksFollowMain ==
    (gen # NoGenerator /\ gen.call.op = "Generate" /\ ~gen.g.panicked) =>
        LET output == gen.g.output
            statements == gen.call.node.Statements
        IN \A k \in 1..Len(statements) :
              (statements[k].kind = "FunctionDefinition") =>
                 /\ Cardinality({i \in 1..Len(output) :
                        output[i] = <<statements[k].Name \o ":">>}) = 1
                 /\ LineIndex(output, <<statements[k].Name \o ":">>) > ExitIndex(output)
                 /\ output[LineIndex(output, <<statements[k].Name \o ":">>) + 1][1]
                        = "addiu"

(***************************************************************************)
(* Running emitted lines on a machine whose values are terms: a literal is *)
(* <<"int", text>>, a variable read by name is <<"var", name>>, the result *)
(* of a call is <<"ret", callee>>, an address is <<"addr", n>>, and what a *)
(* register or a memory word held before the first line is <<"entry", r>>  *)
(* or <<"mem", n>>; stored holds what was last written to each variable.   *)
(* A jal records the argument registers it finds.  The                     *)
(* callee leaves $sp and the stack as they were; with `clobber` it         *)
(* overwrites every temporary register, without it every register but $v0  *)
(* is left alone, which is the most a caller may hope for.  A jr ends the  *)
(* run.                                                                    *)
(***************************************************************************)
SavedNames == {"$ra", "$fp", "$s0", "$s1"}

RegisterNames ==
    {T(i) : i \in 0..(NumRegisters - 1)} \cup {A(i) : i \in 0..(MaxArgRegs - 1)}
    \cup {"$v0", "$sp"} \cup SavedNames

MaxOffset == 48

\* the texts of the immediates and offsets the generator writes
Immediates == [n \in (0 - MaxOffset)..MaxOffset |-> Itoa(n)]

\* the number an immediate text denotes
Immediate(text) ==
    IF \E n \in DOMAIN Immediates : Immediates[n] = text
    THEN CHOOSE n \in DOMAIN Immediates : Immediates[n] = text
    ELSE 0

\* the memory operands off(base)
MemOperands ==
    {[text |-> Immediates[n] \o "(" \o base \o ")", off |-> n, base |-> base] :
        n \in DOMAIN Immediates, base \in {"$sp", "$fp"}}

IsMem(text) == \E o \in MemOperands : o.text = text

Machine ==
    [regs |-> [r \in RegisterNames |->
                  IF r = "$sp" THEN <<"addr", 0>> ELSE <<"entry", r>>],
     slots |-> [a \in {} |-> <<>>], stored |-> [a \in {} |-> <<>>],
     calls |-> <<>>, clobber |-> FALSE, returned |-> FALSE]

\* what a register holds
Val(m, r) == IF r \in DOMAIN m.regs THEN m.regs[r] ELSE <<"?", r>>

\* the word a memory operand names, or <<>> when its base holds no address
Address(m, text) ==
    LET o == CHOOSE o \in MemOperands : o.text = text
    IN IF Val(m, o.base)[1] = "addr" THEN <<Val(m, o.base)[2] + o.off>> ELSE <<>>

Load(m, text) ==
    IF ~IsMem(text) THEN <<"var", text>>
    ELSE IF Address(m, text) = <<>> THEN <<"?", text>>
    ELSE IF Address(m, text)[1] \in DOMAIN m.slots THEN m.slots[Address(m, text)[1]]
    ELSE <<"mem", Address(m, text)[1]>>

ExecLine(m, line) ==
    IF line = <<>> THEN m
    ELSE CASE line[1] \in {"li"} /\ line[2] \in RegisterNames ->
                [m EXCEPT !.regs[line[2]] = <<"int", line[3]>>]
           [] line[1] = "lw" /\ line[2] \in RegisterNames ->
                [m EXCEPT !.regs[line[2]] = Load(m, line[3])]
           [] line[1] = "sw" /\ IsMem(line[3]) ->
                IF Address(m, line[3]) = <<>> THEN m
                ELSE [m EXCEPT !.slots =
                         Put(m.slots, Address(m, line[3])[1], Val(m, line[2]))]
           [] line[1] = "sw" /\ ~IsMem(line[3]) ->
                [m EXCEPT !.stored = Put(m.stored, line[3], Val(m, line[2]))]
           [] line[1] = "addiu" /\ line[2] \in RegisterNames ->
                [m EXCEPT !.regs[line[2]] =
                    IF Val(m, line[3])[1] = "addr"
                    THEN <<"addr", Val(m, line[3])[2] + Immediate(line[4])>>
                    ELSE <<"addiu", Val(m, line[3]), line[4]>>]
           [] line[1] = "move" /\ line[2] \in RegisterNames ->
                [m EXCEPT !.regs[line[2]] = Val(m, line[3])]
           [] line[1] \in {"add", "sub", "mul", "slt"} /\ line[2] \in RegisterNames ->
                [m EXCEPT !.regs[line[2]] =
                    <<line[1], Val(m, line[3]), Val(m, line[4])>>]
           [] line[1] = "jr" -> [m EXCEPT !.returned = TRUE]
           [] line[1] = "jal" ->
                [m EXCEPT !.calls = Append(m.calls,
                              [callee |-> line[2],
                               args |-> [i \in 1..MaxArgRegs |-> m.regs[A(i - 1)]]]),
                          !.regs = [r \in RegisterNames |->
                              IF r = "$v0" THEN <<"ret", line[2]>>
                              ELSE IF m.clobber /\ r \in {T(i) : i \in 0..(NumRegisters - 1)}
                                   THEN <<"clobbered", r>>
                              ELSE m.regs[r]]]
           [] OTHER -> m

RECURSIVE Exec(_, _, _)
Exec(m, output, i) ==
    IF i > Len(output) \/ m.returned THEN m
    ELSE Exec(ExecLine(m, output[i]), output, i + 1)

\* the value of an argument expression as a term of the machine
RECURSIVE ValueOf(_)
ValueOf(e) ==
    CASE e.kind = "IntegerLiteral" -> <<"int", e.Value>>
      [] e.kind = "Identifier" -> <<"var", e.Value>>
      [] e.kind = "FunctionCall" -> <<"ret", e.Function>>
      [] e.kind = "BinaryExpression" ->
            IF e.Operator = ">" THEN <<"slt", ValueOf(e.Right), ValueOf(e.Left)>>
            ELSE <<CASE e.Operator = "+" -> "add"
                     [] e.Operator = "-" -> "sub"
                     [] e.Operator = "*" -> "mul"
                     [] OTHER -> "slt",
                   ValueOf(e.Left), ValueOf(e.Right)>>

\* the calls of an expression in the order their jal lines are written
RECURSIVE CallsOf(_)
RECURSIVE CallsOfAll(_, _)
CallsOfAll(es, i) == IF i > Len(es) THEN <<>> ELSE CallsOf(es[i]) \o CallsOfAll(es, i + 1)

CallsOf(e) ==
    CASE e.kind = "FunctionCall" -> CallsOfAll(e.Arguments, 1) \o <<e>>
      [] e.kind = "BinaryExpression" -> CallsOf(e.Left) \o CallsOf(e.Right)
      [] e.kind = "AssignmentStatement" -> CallsOf(e.Value)
      [] OTHER -> <<>>

\* the program is a list of assignments
OnlyAssignments(statements) ==
    \A k \in 1..Len(statements) : statements[k].kind = "AssignmentStatement"

(***************************************************************************)
(* C20: for a call with at most four arguments, when its jal runs $a_i     *)
(* holds the value of the i-th argument for every argument, also when a    *)
(* later argument is a function call.                                      *)
(***************************************************************************)
C20_ArgumentsInPlaceAtJal ==
    (gen # NoGenerator /\ gen.call.op = "Generate" /\ steps = 1
        /\ OnlyAssignments(gen.call.node.Statements)) =>
        LET made == Exec(Machine, gen.g.output, 1).calls
            asked == CallsOfAll(gen.call.node.Statements, 1)
        IN /\ Len(made) = Len(asked)
           /\ \A k \in 1..Len(asked) :
                /\ made[k].callee = asked[k].Function
                /\ \A i \in 1..Len(asked[k].Arguments) :
                      made[k].args[i] = ValueOf(asked[k].Arguments[i])

\* how many lines of the output are the given line
Count(output, line) == Cardinality({i \in 1..Len(output) : output[i] = line})

\* how many statements of the list are print statements
PrintCount(statements) ==
    Cardinality({k \in 1..Len(statements) : statements[k].kind = "PrintStatement"})

(***************************************************************************)
(* C21: each print statement of a program - of an integer or string        *)
(* variable, a literal or a compound expression - is lowered to a system   *)
(* call with code 1 or 4 that prints the value, followed by a second       *)
(* system call that prints the constant `newline`.                         *)
(***************************************************************************)
C21_PrintThenNewline ==
    (gen # NoGenerator /\ gen.call.op = "Generate" /\ ~gen.g.panicked) =>
        LET output == gen.g.output
            prints == PrintCount(gen.call.node.Statements)
        IN /\ Count(output, <<"la", "$a0", "newline">>) = prints
           /\ Count(output, <<"syscall">>) = 2 * prints + 1
           /\ Count(output, <<"li", "$v0", "1">>) + Count(output, <<"li", "$v0", "4">>)
                 = 2 * prints

(***************************************************************************)
(* control.go: conditions and the exported if statement.                   *)
(***************************************************************************)
getUniqueLabel(g, prefix) ==
    [g |-> [g EXCEPT !.labelCount = g.labelCount + 1],
     label |-> prefix \o "_" \o Itoa(g.labelCount + 1)]

ComparisonOperators == {">", "<", ">=", "<=", "==", "!="}

\* the listing of the ordered comparisons with `<=` and `>=` exchanged
ConditionLinesAsListed(operator, resultReg, leftReg, rightReg, trueLabel, falseLabel) ==
    CASE operator \in {"<", "<="} ->
            <<<<"slt", T(resultReg), T(leftReg), T(rightReg)>>,
              <<IF operator = "<" THEN "beq" ELSE "bne", T(resultReg), "$zero", falseLabel>>,
              <<"j", trueLabel>>>>
      [] operator \in {">", ">="} ->
            <<<<"slt", T(resultReg), T(rightReg), T(leftReg)>>,
              <<IF operator = ">" THEN "beq" ELSE "bne", T(resultReg), "$zero", falseLabel>>,
              <<"j", trueLabel>>>>
      [] operator \in {"==", "!="} ->
            <<<<"sub", T(resultReg), T(leftReg), T(rightReg)>>,
              <<IF operator = "==" THEN "bne" ELSE "beq", T(resultReg), "$zero", falseLabel>>,
              <<"j", trueLabel>>>>
      [] OTHER -> <<>>

\* the switch with the branch of `==` and `!=` exchanged
ConditionLinesExchanged(operator, resultReg, leftReg, rightReg, trueLabel, falseLabel) ==
    CASE operator \in {"<", ">="} ->
            <<<<"slt", T(resultReg), T(leftReg), T(rightReg)>>,
              <<IF operator = "<" THEN "beq" ELSE "bne", T(resultReg), "$zero", falseLabel>>,
              <<"j", trueLabel>>>>
      [] operator \in {">", "<="} ->
            <<<<"slt", T(resultReg), T(rightReg), T(leftReg)>>,
              <<IF operator = ">" THEN "beq" ELSE "bne", T(resultReg), "$zero", falseLabel>>,
              <<"j", trueLabel>>>>
      [] operator \in {"==", "!="} ->
            <<<<"sub", T(resultReg), T(leftReg), T(rightReg)>>,
              <<IF operator = "==" THEN "beq" ELSE "bne", T(resultReg), "$zero", falseLabel>>,
              <<"j", trueLabel>>>>
      [] OTHER -> <<>>

\* the switch over binExpr.Operator
ConditionLines(operator, resultReg, leftReg, rightReg, trueLabel, falseLabel) ==
    CASE operator = ">" ->
            <<<<"slt", T(resultReg), T(rightReg), T(leftReg)>>,
              <<"beq", T(resultReg), "$zero", falseLabel>>, <<"j", trueLabel>>>>
      [] operator = "<" ->
            <<<<"slt", T(resultReg), T(leftReg), T(rightReg)>>,
              <<"beq", T(resultReg), "$zero", falseLabel>>, <<"j", trueLabel>>>>
      [] operator = ">=" ->
            <<<<"slt", T(resultReg), T(leftReg), T(rightReg)>>,
              <<"bne", T(resultReg), "$zero", falseLabel>>, <<"j", trueLabel>>>>
      [] operator = "<=" ->
            <<<<"slt", T(resultReg), T(rightReg), T(leftReg)>>,
              <<"bne", T(resultReg), "$zero", falseLabel>>, <<"j", trueLabel>>>>
      [] operator = "==" ->
            <<<<"sub", T(resultReg), T(leftReg), T(rightReg)>>,
              <<"bne", T(resultReg), "$zero", falseLabel>>, <<"j", trueLabel>>>>
      [] operator = "!=" ->
            <<<<"sub", T(resultReg), T(leftReg), T(rightReg)>>,
              <<"beq", T(resultReg), "$zero", falseLabel>>, <<"j", trueLabel>>>>
      [] OTHER -> <<>>

\* generateCondition as (generator, scope.regs, whether an error is returned)
generateCondition(g, condition, trueLabel, falseLabel) ==
    IF condition = Nil \/ condition.kind # "BinaryExpression"
    THEN [g |-> g, regs |-> <<>>, err |-> TRUE]
    ELSE With(generateExpression(g, condition.Left), LAMBDA l :
         With(generateExpression(l.g, condition.Right), LAMBDA r :
         With(allocateRegister(r.g), LAMBDA a :
            [g |-> Emit(a.g, ConditionLines(condition.Operator, a.reg, l.reg, r.reg,
                                            trueLabel, falseLabel)),
             regs |-> <<l.reg, r.reg, a.reg>>,
             err |-> condition.Operator \notin ComparisonOperators])))

RECURSIVE Free(_, _, _)
\* RegisterScope.Free from the i-th register of the scope on
Free(g, regs, i) ==
    IF i > Len(regs) THEN g ELSE Free(freeRegister(g, regs[i]), regs, i + 1)

\* withRegisters applied to what the function it runs returned
withRegisters(r) == [g |-> Free(r.g, r.regs, 1), err |-> r.err]

\* the bulk clear of the register pool
clearAllRegisters(g) == IF g.panicked THEN g ELSE [g EXCEPT !.usedRegs = {}]

\* GenerateIfStatement from the condition on, with its three labels
GenerateIfBlocks(c, stmt, ifTrue, ifFalse, ifEnd) ==
    IF c.err THEN c
    ELSE [g |-> clearAllRegisters(
                  Emit(generateAll(
                           Emit(generateAll(Emit(c.g, <<<<ifTrue \o ":">>>>),
                                            stmt.Consequence, 1),
                                <<<<"j", ifEnd>>, <<ifFalse \o ":">>>>),
                           stmt.Alternative, 1),
                       <<<<ifEnd \o ":">>>>)),
          err |-> FALSE]

GenerateIfStatement(g, stmt) ==
    With(getUniqueLabel(g, "if_true"), LAMBDA t :
    With(getUniqueLabel(t.g, "if_false"), LAMBDA f :
    With(getUniqueLabel(f.g, "if_end"), LAMBDA e :
        GenerateIfBlocks(
            withRegisters(generateCondition(e.g, stmt.Condition, t.label, f.label)),
            stmt, t.label, f.label, e.label))))

(***************************************************************************)
(* Running emitted lines on a machine with two's-complement words of       *)
(* WordBits bits (the width of the MIPS word scaled down to what the       *)
(* checker's integers hold): variables are words named by their labels, a  *)
(* register never written reads 0, as does $zero.  trace holds the label   *)
(* lines control passed; a jump to a label that the lines do not define    *)
(* ends the run with the label in exit.                                    *)
(***************************************************************************)
WordBits == 16

MinWord == 0 - 2 ^ (WordBits - 1)

MaxWord == 2 ^ (WordBits - 1) - 1

Wrap(n) == ((n - MinWord) % (2 ^ WordBits)) + MinWord

MaxRun == 40

Concrete(vals) == [regs |-> [r \in {} |-> 0], vars |-> vals, trace |-> <<>>, exit |-> ""]

Get(m, r) == IF r \in DOMAIN m.regs THEN m.regs[r] ELSE 0

Set(m, r, v) == [m EXCEPT !.regs = Put(m.regs, r, v)]

RunLine(m, line) ==
    CASE Len(line) = 1 -> [m EXCEPT !.trace = Append(m.trace, line[1])]
      [] Len(line) = 3 /\ line[1] = "li" -> Set(m, line[2], Immediate(line[3]))
      [] Len(line) = 3 /\ line[1] = "lw" ->
            Set(m, line[2], IF line[3] \in DOMAIN m.vars THEN m.vars[line[3]] ELSE 0)
      [] Len(line) = 3 /\ line[1] = "sw" /\ ~IsMem(line[3]) ->
            [m EXCEPT !.vars = Put(m.vars, line[3], Get(m, line[2]))]
      [] Len(line) = 3 /\ line[1] = "move" -> Set(m, line[2], Get(m, line[3]))
      [] Len(line) = 4 /\ line[1] = "add" ->
            Set(m, line[2], Wrap(Get(m, line[3]) + Get(m, line[4])))
      [] Len(line) = 4 /\ line[1] = "sub" ->
            Set(m, line[2], Wrap(Get(m, line[3]) - Get(m, line[4])))
      [] Len(line) = 4 /\ line[1] = "mul" ->
            Set(m, line[2], Wrap(Get(m, line[3]) * Get(m, line[4])))
      [] Len(line) = 4 /\ line[1] = "slt" ->
            Set(m, line[2], IF Get(m, line[3]) < Get(m, line[4]) THEN 1 ELSE 0)
      [] OTHER -> m

\* whether the line transfers control to the label it ends with
Taken(m, line) ==
    CASE Len(line) = 2 /\ line[1] = "j" -> TRUE
      [] Len(line) = 4 /\ line[1] = "beq" -> Get(m, line[2]) = Get(m, line[3])
      [] Len(line) = 4 /\ line[1] = "bne" -> Get(m, line[2]) # Get(m, line[3])
      [] Len(line) = 4 /\ line[1] = "bgt" -> Get(m, line[2]) > Get(m, line[3])
      [] Len(line) = 4 /\ line[1] = "bge" -> Get(m, line[2]) >= Get(m, line[3])
      [] OTHER -> FALSE

RECURSIVE Run(_, _, _, _)
Run(m, output, i, fuel) ==
    IF fuel = 0 \/ i > Len(output) THEN m
    ELSE IF Taken(m, output[i])
    THEN IF LineIndex(output, <<output[i][Len(output[i])] \o ":">>) = 0
         THEN [m EXCEPT !.exit = output[i][Len(output[i])]]
         ELSE Run(m, output, LineIndex(output, <<output[i][Len(output[i])] \o ":">>),
                  fuel - 1)
    ELSE Run(RunLine(m, output[i]), output, i + 1, fuel - 1)

\* the values operands are drawn from
OperandValues == {MinWord, 0 - 1, 0, 1, MaxWord}

\* the value of an operand, a literal or a variable
OperandValue(vals, e) ==
    IF e.kind = "IntegerLiteral" THEN Immediate(e.Value) ELSE vals[e.Value]

Holds(operator, a, b) ==
    CASE operator = "<" -> a < b
      [] operator = ">" -> a > b
      [] operator = "<=" -> a <= b
      [] operator = ">=" -> a >= b
      [] operator = "==" -> a = b
      [] operator = "!=" -> a # b
      [] OTHER -> FALSE

(***************************************************************************)
(* A client inside the package: on one generator it collects the symbols   *)
(* of programs and generates conditions and if statements with the         *)
(* functions of control.go.  gen.call holds the last call.                 *)
(***************************************************************************)
MaxControlCalls == 2

Assign(name, value) == AssignmentStatement(name, value)

CollectPrograms ==
    { <<Assign("x", Integer("1")), Assign("y", Integer("2"))>>,
      <<Assign("x", Str("a")), PrintStatement(Str("b"))>>,
      <<Assign("x", BinaryExpression(Ident("y"), "+", Integer("2")))>>,
      <<IfStatement(BinaryExpression(Ident("x"), ">", Integer("1")),
                    <<Assign("y", Integer("2"))>>, <<Assign("z", Str("c"))>>)>>,
      <<WhileStatement(BinaryExpression(Ident("x"), "<", Integer("3")),
                       <<Assign("x", BinaryExpression(Ident("x"), "+", Integer("1")))>>)>>,
      <<Assign("x", FunctionCall("f", <<Ident("z")>>))>>,
      <<FunctionDefinition("f", <<"a">>, <<ReturnStatement(Ident("b"))>>)>>,
      <<PrintStatement(Ident("x"))>> }

OperandPairs ==
    { <<Ident("x"), Ident("y")>>, <<Ident("y"), Ident("x")>>,
      <<Ident("x"), Integer("1")>>, <<Integer("0"), Ident("y")>> }

Conditions ==
    {BinaryExpression(p[1], operator, p[2]) :
        p \in OperandPairs, operator \in ComparisonOperators}
    \cup {Ident("x"), BinaryExpression(Ident("x"), "+", Ident("y"))}

IfStatements ==
    { IfStatement(BinaryExpression(Ident("x"), ">", Integer("0")),
                  <<Assign("y", Integer("1"))>>, <<Assign("y", Integer("2"))>>),
      IfStatement(BinaryExpression(Ident("x"), "<", Ident("y")),
                  <<IfStatement(BinaryExpression(Ident("y"), ">", Integer("1")),
                                <<Assign("x", Integer("2"))>>,
                                <<Assign("x", Integer("3"))>>)>>,
                  <<Assign("y", Integer("2"))>>),
      IfStatement(BinaryExpression(Ident("x"), ">", Integer("0")),
                  <<Assign("y", Integer("1"))>>, <<>>),
      IfStatement(Ident("x"), <<Assign("y", Integer("1"))>>, <<Assign("y", Integer("2"))>>) }

ControlInit ==
    /\ FrontIdle
    /\ steps = 0
    /\ tables = NoTables
    /\ gen = [g |-> NewGenerator(RootTable), call |-> [op |-> "New"]]

CallCollectSymbols ==
    /\ gen # NoGenerator
    /\ steps < MaxControlCalls
    /\ steps' = steps + 1
    /\ \E statements \in CollectPrograms :
          gen' = [g |-> collectSymbols(gen.g, Program(statements)),
                  call |-> [op |-> "collectSymbols", node |-> Program(statements),
                            again |-> /\ gen.call.op = "collectSymbols"
                                      /\ gen.call.node = Program(statements),
                            before |-> gen.g]]
    /\ UNCHANGED <<frontVars, tables>>

CallGenerateCondition ==
    /\ gen # NoGenerator
    /\ steps < MaxControlCalls
    /\ steps' = steps + 1
    /\ \E condition \in Conditions :
          gen' = With(generateCondition(gen.g, condition, "if_true_1", "if_false_2"),
                      LAMBDA r :
                  [g |-> withRegisters(r).g,
                   call |-> [op |-> "generateCondition", condition |-> condition,
                             trueLabel |-> "if_true_1", falseLabel |-> "if_false_2",
                             from |-> Len(gen.g.output) + 1, regs |-> r.regs,
                             err |-> r.err]])
    /\ UNCHANGED <<frontVars, tables>>

CallGenerateIfStatement ==
    /\ gen # NoGenerator
    /\ steps < MaxControlCalls
    /\ steps' = steps + 1
    /\ \E stmt \in IfStatements :
          gen' = With(GenerateIfStatement(gen.g, stmt), LAMBDA r :
                  [g |-> r.g,
                   call |-> [op |-> "GenerateIfStatement", stmt |-> stmt,
                             from |-> Len(gen.g.output) + 1,
                             labelCount |-> gen.g.labelCount, err |-> r.err]])
    /\ UNCHANGED <<frontVars, tables>>

ControlNext == CallCollectSymbols \/ CallGenerateCondition \/ CallGenerateIfStatement

ControlSpec == ControlInit /\ [][ControlNext]_vars

\* the lines the last call wrote
Written == SubSeq(gen.g.output, gen.call.from, Len(gen.g.output))

\* whether the generator resolves the operand: a literal, or a name Lookup finds
Resolved(g, e) ==
    \/ e.kind = "IntegerLiteral"
    \/ e.kind = "Identifier" /\ LookupIn(g.symbolTable.heap, 1, e.Value).ok

\* the last call is generateCondition on an ordered comparison of operands
\* that resolve
OrderedComparisonGenerated ==
    /\ gen # NoGenerator
    /\ gen.call.op = "generateCondition"
    /\ ~gen.g.panicked
    /\ gen.call.condition.kind = "BinaryExpression"
    /\ gen.call.condition.Operator \in {"<", ">", "<=", ">="}
    /\ Resolved(gen.g, gen.call.condition.Left)
    /\ Resolved(gen.g, gen.call.condition.Right)

\* `y op' x` for `x op y`
Mirror(condition) ==
    BinaryExpression(condition.Right,
                     CASE condition.Operator = "<" -> ">"
                       [] condition.Operator = ">" -> "<"
                       [] condition.Operator = "<=" -> ">="
                       [] condition.Operator = ">=" -> "<="
                       [] OTHER -> condition.Operator,
                     condition.Left)

\* what generateCondition writes for the condition on the generator as the
\* last call left it
ConditionCode(condition) ==
    generateCondition([gen.g EXCEPT !.output = <<>>], condition,
                      gen.call.trueLabel, gen.call.falseLabel)

\* the term the comparison of a condition's code computes, with its branch
Comparison(r) ==
    <<Val(Exec(Machine, r.g.output, 1), T(r.regs[3])),
      r.g.output[Len(r.g.output) - 1][1], r.g.output[Len(r.g.output) - 1][4],
      r.g.output[Len(r.g.output)]>>

\* set-less-than of the operands in the given order, then the branch
Lowered(first, second, branch) ==
    <<<<"slt", ValueOf(first), ValueOf(second)>>, branch, gen.call.falseLabel,
      <<"j", gen.call.trueLabel>>>>

\* what generateExpression writes for the condition as an expression
ExpressionCode(condition) ==
    generateExpression([gen.g EXCEPT !.output = <<>>], condition)

(***************************************************************************)
(* C22 as stated: `<` is lowered as slt(left, right) and `>` as            *)
(* slt(right, left), `<=` as slt(left, right) and `>=` as slt(right, left)  *)
(* followed by a negation, by generateCondition and by generateExpression; *)
(* `x > y` and `y < x` compare the same operands and branch the same way,  *)
(* and so do `x >= y` and `y <= x`.                                        *)
(***************************************************************************)
C22_Original ==
    OrderedComparisonGenerated =>
        LET c == gen.call.condition
        IN /\ Comparison(ConditionCode(c)) =
                 CASE c.Operator = "<" -> Lowered(c.Left, c.Right, "beq")
                   [] c.Operator = ">" -> Lowered(c.Right, c.Left, "beq")
                   [] c.Operator = "<=" -> Lowered(c.Left, c.Right, "bne")
                   [] c.Operator = ">=" -> Lowered(c.Right, c.Left, "bne")
           /\ Comparison(ConditionCode(Mirror(c))) = Comparison(ConditionCode(c))
           /\ Val(Exec(Machine, ExpressionCode(c).g.output, 1), T(ExpressionCode(c).reg))[1]
                 = "slt"

(***************************************************************************)
(* C22: generateCondition lowers `<` as slt(left, right) and `>` as        *)
(* slt(right, left) with a branch to the false label on zero, `<=` as      *)
(* slt(right, left) and `>=` as slt(left, right) with a branch to the      *)
(* false label on non-zero; `x > y` and `y < x` compare the same operands  *)
(* in the same order and branch the same way, and so do `x >= y` and       *)
(* `y <= x`; generateExpression lowers `<` and `>` to the same slt and     *)
(* writes no instruction for `<=` and `>=`.                                *)
(***************************************************************************)
C22_OrderedComparisons ==
    OrderedComparisonGenerated =>
        LET c == gen.call.condition
        IN /\ Written = ConditionCode(c).g.output
           /\ Comparison(ConditionCode(c)) =
                 CASE c.Operator = "<" -> Lowered(c.Left, c.Right, "beq")
                   [] c.Operator = ">" -> Lowered(c.Right, c.Left, "beq")
                   [] c.Operator = "<=" -> Lowered(c.Right, c.Left, "bne")
                   [] c.Operator = ">=" -> Lowered(c.Left, c.Right, "bne")
           /\ Comparison(ConditionCode(Mirror(c))) = Comparison(ConditionCode(c))
           /\ IF c.Operator \in {"<", ">"}
              THEN Val(Exec(Machine, ExpressionCode(c).g.output, 1),
                       T(ExpressionCode(c).reg))
                      = Comparison(ConditionCode(c))[1]
              ELSE \A i \in 1..Len(ExpressionCode(c).g.output) :
                      ExpressionCode(c).g.output[i][1] \in {"li", "lw"}

C22_Witness ==
    /\ OrderedComparisonGenerated
    /\ gen.call.condition.Operator = "<="
    /\ gen.call.condition.Left.kind = "Identifier"
    /\ gen.call.condition.Right.kind = "Identifier"
    /\ Len(Written) > 3

(***************************************************************************)
(* C29: for each of the six comparison operators and all values of the     *)
(* operands, the extremes of the word included, the lines                  *)
(* generateCondition writes transfer control to trueLabel when             *)
(* `left op right` holds and to falseLabel when it does not.               *)
(***************************************************************************)
ConditionGenerated ==
    /\ gen # NoGenerator
    /\ gen.call.op = "generateCondition"
    /\ ~gen.g.panicked
    /\ ~gen.call.err
    /\ Resolved(gen.g, gen.call.condition.Left)
    /\ Resolved(gen.g, gen.call.condition.Right)

C29_ConditionBranchesAsComparison ==
    ConditionGenerated =>
        \A a \in OperandValues, b \in OperandValues :
            LET vals == [n \in {"x", "y"} |-> IF n = "x" THEN a ELSE b]
            IN Run(Concrete(vals), Written, 1, MaxRun).exit
                  = IF Holds(gen.call.condition.Operator,
                             OperandValue(vals, gen.call.condition.Left),
                             OperandValue(vals, gen.call.condition.Right))
                    THEN gen.call.trueLabel ELSE gen.call.falseLabel

C29_Witness ==
    /\ ConditionGenerated
    /\ gen.call.condition.Operator = "=="
    /\ gen.call.condition.Left.kind = "Identifier"
    /\ Run(Concrete([n \in {"x", "y"} |-> MinWord]), Written, 1, MaxRun).exit
          = gen.call.trueLabel
    /\ Run(Concrete([n \in {"x", "y"} |-> IF n = "x" THEN MaxWord ELSE 0 - 1]),
           Written, 1, MaxRun).exit = gen.call.falseLabel

LabelPrefixes ==
    {"if_true", "if_false", "if_end", "while_start", "while_body", "while_end"}

\* the line that defines the label with the prefix and the number
LabelLine(prefix, k) == <<prefix \o "_" \o Itoa(k) \o ":">>

\* the last call is GenerateIfStatement on a statement with an else branch
\* whose condition compares operands that resolve
IfElseGenerated ==
    /\ gen # NoGenerator
    /\ gen.call.op = "GenerateIfStatement"
    /\ ~gen.g.panicked
    /\ ~gen.call.err
    /\ gen.call.stmt.Alternative # <<>>
    /\ Resolved(gen.g, gen.call.stmt.Condition.Left)
    /\ Resolved(gen.g, gen.call.stmt.Condition.Right)

(***************************************************************************)
(* C23: for an if statement with an else branch GenerateIfStatement writes *)
(* a true, a false and an end label with three distinct numbers that no    *)
(* other label of the output carries, and every run of the lines it wrote, *)
(* from the condition to the end label, passes exactly one of the true     *)
(* label (the consequence) and the false label (the alternative).          *)
(***************************************************************************)
C23_ThreeLabelsOneBlock ==
    IfElseGenerated =>
        LET n == gen.call.labelCount
            own == {<<"if_true", n + 1>>, <<"if_false", n + 2>>, <<"if_end", n + 3>>}
        IN /\ \A prefix \in LabelPrefixes, k \in (n + 1)..(n + 3) :
                 Count(gen.g.output, LabelLine(prefix, k))
                    = IF <<prefix, k>> \in own THEN 1 ELSE 0
           /\ \A a \in OperandValues, b \in OperandValues :
                 LET passed == Range(Run(Concrete([v \in {"x", "y"} |->
                                                      IF v = "x" THEN a ELSE b]),
                                         Written, 1, MaxRun).trace)
                 IN /\ LabelLine("if_end", n + 3)[1] \in passed
                    /\ (LabelLine("if_true", n + 1)[1] \in passed)
                          # (LabelLine("if_false", n + 2)[1] \in passed)

(***************************************************************************)
(* C24: collecting the symbols of a program a second time, right after the *)
(* first, leaves the symbol table - names, types and addresses - and the   *)
(* pool of string literals as the first collection left them.              *)
(***************************************************************************)
C24_CollectTwiceIsCollectOnce ==
    (gen # NoGenerator /\ gen.call.op = "collectSymbols" /\ gen.call.again) =>
        /\ gen.g.symbolTable = gen.call.before.symbolTable
        /\ gen.g.stringLiterals = gen.call.before.stringLiterals

C24_Witness ==
    /\ gen # NoGenerator
    /\ gen.call.op = "collectSymbols"
    /\ gen.call.again
    /\ Len(gen.g.stringLiterals) = 2
    /\ LookupIn(gen.g.symbolTable.heap, 1, "x").ok
    /\ LookupIn(gen.g.symbolTable.heap, 1, "x").sym.Type = "STRING"

RECURSIVE NamesOf(_)
RECURSIVE NamesOfAll(_, _)
NamesOfAll(nodes, i) ==
    IF i > Len(nodes) THEN {} ELSE NamesOf(nodes[i]) \cup NamesOfAll(nodes, i + 1)

\* the variable names a node assigns or refers to
NamesOf(node) ==
    CASE node.kind = "Program" -> NamesOfAll(node.Statements, 1)
      [] node.kind = "AssignmentStatement" -> {node.Name} \cup NamesOf(node.Value)
      [] node.kind = "Identifier" -> {node.Value}
      [] node.kind = "BinaryExpression" -> NamesOf(node.Left) \cup NamesOf(node.Right)
      [] node.kind = "IfStatement" ->
            NamesOf(node.Condition) \cup NamesOfAll(node.Consequence, 1)
            \cup NamesOfAll(node.Alternative, 1)
      [] node.kind = "WhileStatement" ->
            NamesOf(node.Condition) \cup NamesOfAll(node.Body, 1)
      [] node.kind \in {"PrintStatement", "ReturnStatement"} -> NamesOf(node.Value)
      [] node.kind = "ExpressionStatement" -> NamesOf(node.Expression)
      [] node.kind = "FunctionCall" -> NamesOfAll(node.Arguments, 1)
      [] node.kind = "FunctionDefinition" -> NamesOfAll(node.Body, 1)
      [] OTHER -> {}

(***************************************************************************)
(* C26: after collectSymbols on a program, Lookup finds every variable     *)
(* name the program assigns or refers to, also a name that occurs only in  *)
(* the arguments of a call, in a return statement or in a function body.   *)
(***************************************************************************)
C26_EveryNameResolves ==
    (gen # NoGenerator /\ gen.call.op = "collectSymbols") =>
        \A name \in NamesOf(gen.call.node) :
            LookupIn(gen.g.symbolTable.heap, 1, name).ok

\* the last call is Generate on a program that is one if or while statement
\* whose condition is `L < R` or `L > R`
BranchGenerated ==
    /\ gen # NoGenerator
    /\ gen.call.op = "Generate"
    /\ ~gen.g.panicked
    /\ Len(gen.call.node.Statements) = 1
    /\ gen.call.node.Statements[1].kind \in {"IfStatement", "WhileStatement"}
    /\ gen.call.node.Statements[1].Condition.kind = "BinaryExpression"
    /\ gen.call.node.Statements[1].Condition.Operator \in {"<", ">"}

\* whether a run that passed the labels of the trace entered the true block
\* of the if statement, or the body of the while statement, numbered 1
BlockEntered(trace, kind) ==
    IF kind = "IfStatement" THEN LabelLine("if_true", 1)[1] \in Range(trace)
    ELSE /\ Len(trace) > LineIndex(trace, LabelLine("while_start", 1)[1])
         /\ trace[LineIndex(trace, LabelLine("while_start", 1)[1]) + 1]
               = LabelLine("while_start", 1)[1]

(***************************************************************************)
(* C25: for an if or while statement whose condition is `L < R` or         *)
(* `L > R` over variables and literals, the code that generateIfStatement  *)
(* and generateWhileStatement write, reached through generateNode, enters  *)
(* the true block or the loop body exactly when the comparison holds.      *)
(***************************************************************************)
C25_BlockEnteredWhenConditionHolds ==
    BranchGenerated =>
        \A a \in OperandValues, b \in OperandValues :
            LET vals == [n \in {"x", "y"} |-> IF n = "x" THEN a ELSE b]
                stmt == gen.call.node.Statements[1]
            IN BlockEntered(Run(Concrete(vals), gen.g.output, 1, MaxRun).trace, stmt.kind)
                  = Holds(stmt.Condition.Operator,
                          OperandValue(vals, stmt.Condition.Left),
                          OperandValue(vals, stmt.Condition.Right))

(***************************************************************************)
(* Functions: the frame generateFunction builds and the return sequence.   *)
(***************************************************************************)
\* frameSize = (16 + 4n + 7) &^ 7
FrameSize(n) == ((16 + n * 4 + 7) \div 8) * 8

PrologueLines(name, frameSize) ==
    <<<<name \o ":">>,
      <<"addiu", "$sp", "$sp", "-" \o Itoa(frameSize)>>,
      <<"sw", "$ra", "-4($sp)">>, <<"sw", "$fp", "-8($sp)">>,
      <<"sw", "$s0", "-12($sp)">>, <<"sw", "$s1", "-16($sp)">>,
      <<"move", "$fp", "$sp">>>>

\* the restore sequence of the epilogue and of generateReturn
ReturnLines(frameSize) ==
    <<<<"lw", "$s1", "-16($fp)">>, <<"lw", "$s0", "-12($fp)">>,
      <<"lw", "$fp", "-8($fp)">>, <<"lw", "$ra", "-4($fp)">>,
      <<"addiu", "$sp", "$sp", Itoa(frameSize)>>, <<"jr", "$ra">>>>

RECURSIVE saveParameters(_, _, _)
\* the loop over fn.Parameters from the i-th parameter (from 1) on
saveParameters(g, parameters, i) ==
    IF i > Len(parameters) THEN g
    ELSE saveParameters(
            Emit([g EXCEPT !.symbolTable =
                      Define(g.symbolTable, 1, parameters[i], "INTEGER")],
                 <<<<"sw", "$a" \o Itoa(i - 1),
                     Itoa(0 - (20 + (i - 1) * 4)) \o "($fp)">>>>),
            parameters, i + 1)

\* hasReturn: a statement of the body is a return statement
HasReturn(body) == \E k \in 1..Len(body) : body[k].kind = "ReturnStatement"

generateFunction(g, fn) ==
    IF g.panicked \/ fn \in {Nil, NilStatement} THEN g
    ELSE With(generateAll(
                  saveParameters(
                      Emit([g EXCEPT !.currentFunction = fn.Name,
                                     !.currentParams = fn.Parameters],
                           PrologueLines(fn.Name, FrameSize(Len(fn.Parameters)))),
                      fn.Parameters, 1),
                  fn.Body, 1),
              LAMBDA g1 :
                IF g1.panicked THEN g1
                ELSE [Emit(g1, IF HasReturn(fn.Body) THEN <<>>
                               ELSE ReturnLines(FrameSize(Len(fn.Parameters))))
                        EXCEPT !.currentFunction = "", !.currentParams = <<>>])

generateReturn(g, stmt) ==
    IF g.panicked \/ stmt \in {Nil, NilStatement} \/ stmt.Value = Nil THEN g
    ELSE With(generateExpression(g, stmt.Value), LAMBDA r :
            IF r.reg = NoRegister THEN r.g
            ELSE Emit(freeRegister(Emit(r.g, <<<<"move", "$v0", T(r.reg)>>>>), r.reg),
                      ReturnLines(FrameSize(Len(g.currentParams)))))

(***************************************************************************)
(* A client inside the package that generates functions and return         *)
(* statements on one generator.                                            *)
(***************************************************************************)
MaxFunctionCalls == 2

MaxParameters == 5

ParameterNames == <<"a", "b", "c", "d", "e", "f">>

\* functions of up to MaxParameters parameters: with an empty body, with a
\* body that assigns a literal or one of the parameters, and with a body
\* that returns
Functions ==
    UNION {
        {FunctionDefinition("f", SubSeq(ParameterNames, 1, n), body) :
            body \in {<<>>, <<Assign("r", Integer("1"))>>,
                      <<ReturnStatement(Integer("1"))>>}
                     \cup {<<Assign("r", Ident(ParameterNames[i]))>> : i \in 1..n}}
        : n \in 0..MaxParameters}

Returns == {ReturnStatement(Integer("1")), ReturnStatement(Ident("a")),
            ReturnStatement(Nil)}

FunctionInit ==
    /\ FrontIdle
    /\ steps = 0
    /\ tables = NoTables
    /\ gen = [g |-> NewGenerator(RootTable), call |-> [op |-> "New"]]

CallGenerateFunction ==
    /\ gen # NoGenerator
    /\ steps < MaxFunctionCalls
    /\ steps' = steps + 1
    /\ \E fn \in Functions :
          gen' = [g |-> generateFunction(gen.g, fn),
                  call |-> [op |-> "generateFunction", fn |-> fn,
                            from |-> Len(gen.g.output) + 1]]
    /\ UNCHANGED <<frontVars, tables>>

CallGenerateReturn ==
    /\ gen # NoGenerator
    /\ steps < MaxFunctionCalls
    /\ steps' = steps + 1
    /\ \E stmt \in Returns :
          gen' = [g |-> generateReturn(gen.g, stmt),
                  call |-> [op |-> "generateReturn", stmt |-> stmt,
                            params |-> gen.g.currentParams,
                            from |-> Len(gen.g.output) + 1]]
    /\ UNCHANGED <<frontVars, tables>>

FunctionNext == CallGenerateFunction \/ CallGenerateReturn

FunctionSpec == FunctionInit /\ [][FunctionNext]_vars

\* the frame pointers of callers
CallerFrames == {8, 64}

\* the machine at the entry of a function whose caller's frame is at fp
Entry(fp) == [Machine EXCEPT !.regs["$fp"] = <<"addr", fp>>]

\* $ra, $fp, $s0, $s1 and $sp hold what they held at the entry
Restored(m, fp) ==
    /\ Val(m, "$ra") = <<"entry", "$ra">>
    /\ Val(m, "$fp") = <<"addr", fp>>
    /\ Val(m, "$s0") = <<"entry", "$s0">>
    /\ Val(m, "$s1") = <<"entry", "$s1">>
    /\ Val(m, "$sp") = <<"addr", 0>>

\* the last call is generateFunction on a function whose body assigns its
\* i-th parameter (from 1), one of those passed in registers
ParameterRead(i) ==
    /\ gen # NoGenerator
    /\ gen.call.op = "generateFunction"
    /\ ~gen.g.panicked
    /\ i <= Len(gen.call.fn.Parameters)
    /\ gen.call.fn.Body = <<Assign("r", Ident(gen.call.fn.Parameters[i]))>>

(***************************************************************************)
(* C28: in the body of a function an identifier that names the i-th        *)
(* parameter is loaded from the frame slot into which the prologue stored  *)
(* $a_i: the value the body reads is the one the caller passed.            *)
(***************************************************************************)
C28_ParameterReadFromItsSlot ==
    \A i \in 1..MaxArgRegs :
        ParameterRead(i) =>
            \A fp \in CallerFrames :
                Exec(Entry(fp), Written, 1).stored["r"] = <<"entry", A(i - 1)>>

(***************************************************************************)
(* C30: the prologue of generateFunction followed by the epilogue it       *)
(* writes itself, or by the sequence of generateReturn, brings $ra, $fp,   *)
(* $s0, $s1 and $sp back to what they held at the entry, and the function  *)
(* ends with `jr $ra`, for any number of parameters and any frame pointer  *)
(* of the caller.                                                          *)
(***************************************************************************)
C30_FrameRestoredAtReturn ==
    /\ (gen # NoGenerator /\ gen.call.op = "generateFunction" /\ ~gen.g.panicked) =>
          /\ Written # <<>>
          /\ Written[Len(Written)] = <<"jr", "$ra">>
          /\ \A fp \in CallerFrames : Restored(Exec(Entry(fp), Written, 1), fp)
    /\ (gen # NoGenerator /\ gen.call.op = "generateReturn" /\ ~gen.g.panicked
           /\ gen.call.stmt.Value # Nil) =>
          /\ Written # <<>>
          /\ Written[Len(Written)] = <<"jr", "$ra">>
          /\ \A fp \in CallerFrames :
                Restored(Exec(Entry(fp),
                              PrologueLines("f", FrameSize(Len(gen.call.params)))
                              \o Written, 1), fp)

(***************************************************************************)
(* A client inside the package that brings the register pool into some     *)
(* state with allocateRegister and freeRegister and then generates calls.  *)
(***************************************************************************)
MaxCalls == 1

Calls ==
    { FunctionCall("f", <<>>),
      FunctionCall("f", <<Integer("1")>>),
      FunctionCall("f", <<Integer("1"), FunctionCall("g", <<Integer("2")>>)>>),
      FunctionCall("f", <<BinaryExpression(Integer("1"), "+", Integer("2")),
                          Ident("z")>>) }

CallerInit ==
    /\ FrontIdle
    /\ steps = 0
    /\ tables = NoTables
    /\ gen = [g |-> NewGenerator(RootTable), call |-> [op |-> "New"]]

\* the pool is set up before the first call is generated
SetUpRegisters == steps = 0 /\ (CallAllocateRegister \/ CallFreeRegister)

CallGenerateFunctionCall ==
    /\ gen # NoGenerator
    /\ ~gen.g.panicked
    /\ steps < MaxCalls
    /\ steps' = steps + 1
    /\ \E call \in Calls :
          gen' = With(generateFunctionCall(gen.g, call), LAMBDA r :
                  [g |-> r.g,
                   call |-> [op |-> "generateFunctionCall", node |-> call,
                             usedBefore |-> gen.g.usedRegs, reg |-> r.reg,
                             from |-> Len(gen.g.output) + 1]])
    /\ UNCHANGED <<frontVars, tables>>

CallerNext == SetUpRegisters \/ CallGenerateFunctionCall

CallerSpec == CallerInit /\ [][CallerNext]_vars

\* the machine after the lines of the last call, every callee having
\* overwritten the temporary registers
AfterCall == Exec([Machine EXCEPT !.clobber = TRUE], Written, 1)

(***************************************************************************)
(* C27: generateFunctionCall pushes every temporary register in use before *)
(* it sets up the arguments and pops them in reverse order after the jal:  *)
(* after the lines of the call $sp is what it was before them and every    *)
(* register that was in use holds what it held, for any set of registers   *)
(* in use and any callee that leaves $sp and the stack as it found them.   *)
(***************************************************************************)
C27_CallPreservesLiveRegisters ==
    (gen # NoGenerator /\ gen.call.op = "generateFunctionCall" /\ ~gen.g.panicked) =>
        LET m == AfterCall
        IN /\ Val(m, "$sp") = <<"addr", 0>>
           /\ \A reg \in gen.call.usedBefore : Val(m, T(reg)) = <<"entry", T(reg)>>
           /\ Len(m.calls) > 0

C27_Witness ==
    /\ gen # NoGenerator
    /\ gen.call.op = "generateFunctionCall"
    /\ ~gen.g.panicked
    /\ gen.call.usedBefore = {0, 2, 9}
    /\ Len(gen.call.node.Arguments) = 2
    /\ Len(AfterCall.calls) = 2
    /\ Val(AfterCall, T(3)) = <<"clobbered", T(3)>>

====
